---- MODULE Spec2Model ----
(***************************************************************************)
(* nicksh: alias-name generation engine (internal/adapters/aliasgeneration)*)
(* together with the BasicAnalyzer it is wired to and the suggestion       *)
(* service that calls it.  Strings are TLA+ strings; a character is a      *)
(* string of length one.                                                   *)
(***************************************************************************)
EXTENDS Integers, Sequences, FiniteSets, TLC

(***************************************************************************)
(* Go string helpers (package strings), ASCII input.                       *)
(***************************************************************************)
CharAt(s, i) == SubSeq(s, i, i)

UpperLetters == "ABCDEFGHIJKLMNOPQRSTUVWXYZ"
LowerLetters == "abcdefghijklmnopqrstuvwxyz"
Digits == "0123456789"

CharsOf(s) == { CharAt(s, i) : i \in 1..Len(s) }

UpperSet == CharsOf(UpperLetters)
AlnumSet == CharsOf(UpperLetters) \cup CharsOf(LowerLetters) \cup CharsOf(Digits)
SpaceSet == {" ", "\t"}

LowerChar(ch) ==
    IF ch \in UpperSet
    THEN CharAt(LowerLetters, CHOOSE i \in 1..26 : CharAt(UpperLetters, i) = ch)
    ELSE ch

RECURSIVE ToLower(_)
ToLower(s) ==
    IF Len(s) = 0 THEN ""
    ELSE LowerChar(CharAt(s, 1)) \o ToLower(SubSeq(s, 2, Len(s)))

HasPrefix(s, p) == Len(s) >= Len(p) /\ SubSeq(s, 1, Len(p)) = p

TrimPrefix(s, p) == IF HasPrefix(s, p) THEN SubSeq(s, Len(p) + 1, Len(s)) ELSE s

Contains(s, ch) == \E i \in 1..Len(s) : CharAt(s, i) = ch

ContainsAny(s, chars) == \E i \in 1..Len(s) : CharAt(s, i) \in CharsOf(chars)

\* strings.Split(s, sep) for a one-character separator
RECURSIVE SplitFrom(_, _, _, _)
SplitFrom(s, sep, i, cur) ==
    IF i > Len(s) THEN <<cur>>
    ELSE IF CharAt(s, i) = sep THEN <<cur>> \o SplitFrom(s, sep, i + 1, "")
    ELSE SplitFrom(s, sep, i + 1, cur \o CharAt(s, i))

Split(s, sep) == SplitFrom(s, sep, 1, "")

RECURSIVE Join(_, _)
Join(parts, sep) ==
    IF Len(parts) = 0 THEN ""
    ELSE IF Len(parts) = 1 THEN parts[1]
    ELSE parts[1] \o sep \o Join(Tail(parts), sep)

\* strings.ReplaceAll(s, old, "") for a one-character old
RECURSIVE RemoveAll(_, _)
RemoveAll(s, ch) ==
    IF Len(s) = 0 THEN ""
    ELSE (IF CharAt(s, 1) = ch THEN "" ELSE CharAt(s, 1)) \o RemoveAll(SubSeq(s, 2, Len(s)), ch)

RECURSIVE TrimLeft(_)
TrimLeft(s) ==
    IF Len(s) > 0 /\ CharAt(s, 1) \in SpaceSet THEN TrimLeft(SubSeq(s, 2, Len(s))) ELSE s

RECURSIVE TrimRight(_)
TrimRight(s) ==
    IF Len(s) > 0 /\ CharAt(s, Len(s)) \in SpaceSet THEN TrimRight(SubSeq(s, 1, Len(s) - 1)) ELSE s

TrimSpace(s) == TrimRight(TrimLeft(s))

\* strings.Fields
RECURSIVE FieldsFrom(_, _, _)
FieldsFrom(s, i, cur) ==
    IF i > Len(s) THEN (IF cur = "" THEN <<>> ELSE <<cur>>)
    ELSE IF CharAt(s, i) \in SpaceSet
         THEN (IF cur = "" THEN <<>> ELSE <<cur>>) \o FieldsFrom(s, i + 1, "")
         ELSE FieldsFrom(s, i + 1, cur \o CharAt(s, i))

Fields(s) == FieldsFrom(s, 1, "")

(***************************************************************************)
(* BasicAnalyzer                                                           *)
(***************************************************************************)
RECURSIVE parseArgumentsFrom(_, _, _, _, _)
parseArgumentsFrom(s, i, currentArg, inQuotes, isEscaped) ==
    IF i > Len(s) THEN (IF Len(currentArg) > 0 THEN <<currentArg>> ELSE <<>>)
    ELSE LET r == CharAt(s, i) IN
         IF isEscaped THEN parseArgumentsFrom(s, i + 1, currentArg \o r, inQuotes, FALSE)
         ELSE IF r = "\\" THEN parseArgumentsFrom(s, i + 1, currentArg, inQuotes, TRUE)
         ELSE IF r = "\"" THEN parseArgumentsFrom(s, i + 1, currentArg, ~inQuotes, FALSE)
         ELSE IF r \in SpaceSet /\ ~inQuotes
              THEN (IF Len(currentArg) > 0 THEN <<currentArg>> ELSE <<>>)
                   \o parseArgumentsFrom(s, i + 1, "", inQuotes, FALSE)
              ELSE parseArgumentsFrom(s, i + 1, currentArg \o r, inQuotes, FALSE)

parseArguments(trimmedCommandStr) == parseArgumentsFrom(trimmedCommandStr, 1, "", FALSE, FALSE)

determineComplexity_FiveIsComplex(originalCommandStr, args) ==
    Len(args) >= 5 \/ ContainsAny(originalCommandStr, "|&;<>()")

determineComplexity(originalCommandStr, args) ==
    Len(args) > 5 \/ ContainsAny(originalCommandStr, "|&;<>()")

Analyze(commandStr) ==
    LET trimmedCommandStr == TrimSpace(commandStr)
        effectiveLength == Len(RemoveAll(trimmedCommandStr, " "))
        args == parseArguments(trimmedCommandStr)
    IN IF trimmedCommandStr = ""
       THEN [Original |-> commandStr, CommandName |-> "", IsComplex |-> FALSE,
             PotentialArgs |-> <<>>, EffectiveLength |-> 0]
       ELSE [Original |-> commandStr,
             CommandName |-> IF Len(args) > 0 THEN TrimPrefix(args[1], "./") ELSE "",
             IsComplex |-> determineComplexity(commandStr, args),
             PotentialArgs |-> IF Len(args) > 1 THEN Tail(args) ELSE <<>>,
             EffectiveLength |-> effectiveLength]

(***************************************************************************)
(* The command strings the generator is given, and the analyzer's answer   *)
(* for each of them, computed once.                                        *)
(***************************************************************************)
CommandPool ==
    { "git pull", "git push", "git pull origin", "git push origin", "git add .", "cd ..",
      "cat .bashrc", "ls ..", "c .. ..", "vi ~x", "ls -l | wc" }

RepeatCommandPool == { "git pull", "git push", "cat .bashrc" }

HistoryLinePool == { "git pull origin", "git add .", "ln src", "" }

\* empty and blank lines, a one-character name, a name that "./" wholly is, no arguments,
\* flags only, arguments that give no initial, and two commands with colliding names
EdgeCommandPool ==
    { "", "  ", "x", "./ abcd", "htop", "l -a -b", "a -- -", "git pull", "git push" }

analyzedCommands ==
    [c \in CommandPool \cup HistoryLinePool \cup EdgeCommandPool |-> Analyze(c)]

\* g.analyzer.Analyze(cmdFreq.Command)
analyzerAnalyze(commandStr) ==
    IF commandStr \in DOMAIN analyzedCommands THEN analyzedCommands[commandStr]
    ELSE Analyze(commandStr)

(***************************************************************************)
(* Go maps as functions; a nil or empty map is the empty function.         *)
(***************************************************************************)
EmptyMap == [k \in {} |-> ""]

MapPut(m, k, v) == [y \in (DOMAIN m) \cup {k} |-> IF y = k THEN v ELSE m[y]]

(***************************************************************************)
(* NameValidator                                                           *)
(***************************************************************************)
\* ^[a-zA-Z0-9.]+$
validAliasCharsRegex(s) ==
    Len(s) >= 1 /\ \A i \in 1..Len(s) : CharAt(s, i) \in AlnumSet \cup {"."}

\* ^[a-zA-Z0-9]+$
validAliasCharsRegexGenerator(s) ==
    Len(s) >= 1 /\ \A i \in 1..Len(s) : CharAt(s, i) \in AlnumSet

isAliasNameValid_IgnoresExisting(proposedName, existing) == TRUE

isAliasNameValid_PrefixBlocks(proposedName, existing) ==
    ~\E k \in DOMAIN existing : HasPrefix(proposedName, k)

isAliasNameValid(proposedName, existing) == proposedName \notin DOMAIN existing

isProposedNameValid_NoRunCheck(proposedName, originalCommandName, existing, generated) ==
    /\ ~(Len(proposedName) < 2)
    /\ validAliasCharsRegex(proposedName)
    /\ proposedName # originalCommandName
    /\ isAliasNameValid(proposedName, existing)

isProposedNameValid_NoShapeCheck(proposedName, originalCommandName, existing, generated) ==
    /\ proposedName # originalCommandName
    /\ proposedName \notin generated
    /\ isAliasNameValid(proposedName, existing)

isProposedNameValid_NoCommandCheck(proposedName, originalCommandName, existing, generated) ==
    /\ ~(Len(proposedName) < 2)
    /\ validAliasCharsRegex(proposedName)
    /\ proposedName \notin generated
    /\ isAliasNameValid(proposedName, existing)

isProposedNameValid(proposedName, originalCommandName, existing, generated) ==
    /\ ~(Len(proposedName) < 2)
    /\ validAliasCharsRegex(proposedName)
    /\ proposedName # originalCommandName
    /\ proposedName \notin generated
    /\ isAliasNameValid(proposedName, existing)

\* exec.LookPath succeeds for the names of the executables on the search path
LookPathFinds(nameToCheck, onPath) == nameToCheck \in onPath

IsValidAliasName_NoLookPath(nameToCheck, existing, onPath) ==
    /\ ~(Len(nameToCheck) < 1)
    /\ validAliasCharsRegexGenerator(nameToCheck)
    /\ nameToCheck \notin DOMAIN existing

IsValidAliasName(nameToCheck, existing, onPath) ==
    /\ ~(Len(nameToCheck) < 1)
    /\ validAliasCharsRegexGenerator(nameToCheck)
    /\ nameToCheck \notin DOMAIN existing
    /\ ~LookPathFinds(nameToCheck, onPath)

(***************************************************************************)
(* SubcommandStrategy: name generation                                     *)
(***************************************************************************)
IsCdUp(analyzedCmd) ==
    /\ analyzedCmd.CommandName = "cd"
    /\ Len(analyzedCmd.PotentialArgs) = 1
    /\ analyzedCmd.PotentialArgs[1] = ".."

generateCommandSubcommandAliasName(analyzedCmd) ==
    IF analyzedCmd.CommandName = "" THEN ""
    ELSE IF IsCdUp(analyzedCmd) THEN "up"
    ELSE
      LET cmdNameLower == ToLower(analyzedCmd.CommandName)
          aliasInitial == CharAt(cmdNameLower, 1)
          args == analyzedCmd.PotentialArgs
      IN IF Len(args) > 0 /\ Len(args[1]) > 0
         THEN LET firstArg == args[1] IN
              IF Contains(firstArg, "/")
              THEN LET parts == Split(firstArg, "/")
                       lastPart == parts[Len(parts)]
                   IN IF lastPart # "" /\ ~HasPrefix(lastPart, ".")
                      THEN aliasInitial \o CharAt(ToLower(lastPart), 1)
                      ELSE aliasInitial \o CharAt(ToLower(firstArg), 1)
              ELSE IF ~HasPrefix(firstArg, "-")
                   THEN aliasInitial \o CharAt(ToLower(firstArg), 1)
              ELSE IF Len(cmdNameLower) > 1 THEN SubSeq(cmdNameLower, 1, 2)
              ELSE aliasInitial
         ELSE IF Len(cmdNameLower) > 1 THEN SubSeq(cmdNameLower, 1, 2)
         ELSE aliasInitial

(***************************************************************************)
(* ExactCommandStrategy: name generation                                   *)
(***************************************************************************)
maxArgInitials == 3

argInitialsFull_Never(argInitialsCount) == FALSE

\* the loop stops taking arguments once it has maxArgInitials initials
argInitialsFull(argInitialsCount) == argInitialsCount >= maxArgInitials

\* pathParts[i] scanning from the end for a non-empty, non-dot-prefixed part
RECURSIVE significantPartFrom(_, _)
significantPartFrom(pathParts, i) ==
    IF i < 1 THEN ""
    ELSE IF pathParts[i] # "" /\ ~HasPrefix(pathParts[i], ".") THEN pathParts[i]
    ELSE significantPartFrom(pathParts, i - 1)

\* the character one argument contributes ("" when it contributes nothing)
partToAddOf(cleanArg) ==
    IF HasPrefix(cleanArg, "--") /\ Len(cleanArg) > 2 THEN CharAt(cleanArg, 3)
    ELSE IF HasPrefix(cleanArg, "-") /\ Len(cleanArg) > 1 THEN CharAt(cleanArg, 2)
    ELSE IF cleanArg = "." THEN "."
    ELSE IF cleanArg = ".." THEN ""
    ELSE IF Contains(cleanArg, "/")
         THEN LET pathParts == Split(cleanArg, "/")
                  found == significantPartFrom(pathParts, Len(pathParts))
                  significantPart == IF found = "" /\ Len(pathParts) > 0
                                     THEN pathParts[Len(pathParts)] ELSE found
              IN IF Len(significantPart) > 0 THEN CharAt(significantPart, 1) ELSE ""
    ELSE IF ~HasPrefix(cleanArg, "-") THEN CharAt(cleanArg, 1)
    ELSE ""

dotIsAppended_Always(joined, nParts) == TRUE

\* a "." is appended only after some other part was appended to the command initial
dotIsAppended(joined, nParts) == nParts > 1 /\ Len(joined) > 1

\* the loop over PotentialArgs; nameParts is kept joined, nParts is len(nameParts)
RECURSIVE exactNameLoop(_, _, _, _, _)
exactNameLoop(args, i, joined, nParts, argInitialsCount) ==
    IF i > Len(args) \/ argInitialsFull(argInitialsCount)
    THEN [joined |-> joined, nParts |-> nParts]
    ELSE IF Len(args[i]) = 0 THEN exactNameLoop(args, i + 1, joined, nParts, argInitialsCount)
    ELSE LET partToAdd == partToAddOf(ToLower(args[i])) IN
         IF partToAdd = "" THEN exactNameLoop(args, i + 1, joined, nParts, argInitialsCount)
         ELSE IF partToAdd = "."
              THEN IF dotIsAppended(joined, nParts)
                   THEN exactNameLoop(args, i + 1, joined \o ".", nParts + 1, argInitialsCount)
                   ELSE exactNameLoop(args, i + 1, joined, nParts, argInitialsCount)
              ELSE exactNameLoop(args, i + 1, joined \o partToAdd, nParts + 1, argInitialsCount + 1)

generateExactCommandAliasName(analyzedCmd) ==
    IF analyzedCmd.CommandName = "" THEN ""
    ELSE IF IsCdUp(analyzedCmd) THEN "up"
    ELSE IF analyzedCmd.IsComplex
         THEN IF Len(analyzedCmd.CommandName) >= 2
              THEN ToLower(SubSeq(analyzedCmd.CommandName, 1, 2))
              ELSE CharAt(ToLower(analyzedCmd.CommandName), 1)
    ELSE LET first == CharAt(ToLower(analyzedCmd.CommandName), 1)
             built == exactNameLoop(analyzedCmd.PotentialArgs, 1, first, 1, 0)
         IN IF built.nParts = 1
            THEN IF Len(analyzedCmd.CommandName) >= 2
                 THEN ToLower(SubSeq(analyzedCmd.CommandName, 1, 2))
                 ELSE first
            ELSE built.joined


(***************************************************************************)
(* SubcommandStrategy: aggregation                                         *)
(***************************************************************************)
minCommandEffectiveLength == 4

RECURSIVE firstNonFlagArgFrom(_, _)
firstNonFlagArgFrom(args, i) ==
    IF i > Len(args) THEN ""
    ELSE IF ~HasPrefix(args[i], "-") /\ Len(args[i]) > 0 THEN args[i]
    ELSE firstNonFlagArgFrom(args, i + 1)

\* the aggregation key of one analyzed command, "" when the entry is skipped
aggregationKeyOf(analyzed, minLen) ==
    IF analyzed.EffectiveLength < minLen THEN ""
    ELSE IF analyzed.CommandName = "" \/ Len(analyzed.PotentialArgs) = 0 THEN ""
    ELSE LET firstNonFlagArg == firstNonFlagArgFrom(analyzed.PotentialArgs, 1)
         IN IF firstNonFlagArg # "" THEN analyzed.CommandName \o " " \o firstNonFlagArg ELSE ""

simplifiedAnalyzedCmd(analyzed, key) ==
    [Original |-> key,
     CommandName |-> analyzed.CommandName,
     PotentialArgs |-> <<firstNonFlagArgFrom(analyzed.PotentialArgs, 1)>>,
     IsComplex |-> FALSE,
     EffectiveLength |-> Len(RemoveAll(key, " "))]

\* cmdFirstArgFreq[key] += cmdFreq.Count
accumulateCount_Overwrite(freq, key, count) == MapPut(freq, key, count)

accumulateCount(freq, key, count) ==
    MapPut(freq, key, (IF key \in DOMAIN freq THEN freq[key] ELSE 0) + count)

RECURSIVE aggregateFrom(_, _, _, _, _)
aggregateFrom(cmds, i, minLen, freq, toAnalyzed) ==
    IF i > Len(cmds) THEN [freq |-> freq, toAnalyzed |-> toAnalyzed]
    ELSE LET analyzed == analyzerAnalyze(cmds[i].Command)
             key == aggregationKeyOf(analyzed, minLen)
         IN IF key = "" THEN aggregateFrom(cmds, i + 1, minLen, freq, toAnalyzed)
            ELSE aggregateFrom(cmds, i + 1, minLen,
                     accumulateCount(freq, key, cmds[i].Count),
                     IF key \in DOMAIN toAnalyzed THEN toAnalyzed
                     ELSE MapPut(toAnalyzed, key, simplifiedAnalyzedCmd(analyzed, key)))

aggregateForCommandFirstArgStrategy(cmds, minLen) ==
    aggregateFrom(cmds, 1, minLen, EmptyMap, EmptyMap)

\* the frequency test of the emission loop: TRUE when the key is skipped
aggregateBelowThreshold(count, minFreq) == count < minFreq

(***************************************************************************)
(* ExactCommandStrategy: the loop over the command list                    *)
(***************************************************************************)
\* the four skip tests of the loop body: TRUE when the entry is skipped
exactSkipsEntry_Exclusive(analyzed, count, minFreq, minLen) ==
    \/ analyzed.IsComplex
    \/ analyzed.EffectiveLength < minLen
    \/ count <= minFreq
    \/ analyzed.CommandName = ""

exactSkipsEntry(analyzed, count, minFreq, minLen) ==
    \/ analyzed.IsComplex
    \/ analyzed.EffectiveLength < minLen
    \/ count < minFreq
    \/ analyzed.CommandName = ""

RECURSIVE exactStrategyFrom(_, _, _, _, _, _, _, _)
exactStrategyFrom(cmds, i, minFreq, existing, generated, minLen, suggestions, origins) ==
    IF i > Len(cmds)
    THEN [suggestions |-> suggestions, generated |-> generated, origins |-> origins]
    ELSE LET analyzed == analyzerAnalyze(cmds[i].Command)
             proposedName == generateExactCommandAliasName(analyzed)
         IN IF exactSkipsEntry(analyzed, cmds[i].Count, minFreq, minLen)
            THEN exactStrategyFrom(cmds, i + 1, minFreq, existing, generated, minLen,
                                   suggestions, origins)
            ELSE IF isProposedNameValid(proposedName, analyzed.CommandName, existing, generated)
            THEN exactStrategyFrom(cmds, i + 1, minFreq, existing,
                                   generated \cup {proposedName}, minLen,
                                   Append(suggestions, [Name |-> proposedName, Command |-> cmds[i].Command]),
                                   Append(origins, [strategy |-> 2, CommandName |-> analyzed.CommandName,
                                                    entry |-> i, key |-> ""]))
            ELSE exactStrategyFrom(cmds, i + 1, minFreq, existing, generated, minLen,
                                   suggestions, origins)

\* the loop over the command list, from the first entry
generateExactFullCommandAliasesStrategy_StopsAtSkip(cmds, minFreq, existing, generated, minLen) ==
    LET skipped == { i \in DOMAIN cmds :
                       exactSkipsEntry(analyzerAnalyze(cmds[i].Command), cmds[i].Count, minFreq, minLen) }
        last == IF skipped = {} THEN Len(cmds)
                ELSE (CHOOSE i \in skipped : \A j \in skipped : i <= j) - 1
    IN exactStrategyFrom(SubSeq(cmds, 1, last), 1, minFreq, existing, generated, minLen, <<>>, <<>>)

generateExactFullCommandAliasesStrategy_LastEntryWins(cmds, minFreq, existing, generated, minLen) ==
    LET n == Len(cmds)
        reversed == [i \in 1..n |-> cmds[n - i + 1]]
        r == exactStrategyFrom(reversed, 1, minFreq, existing, generated, minLen, <<>>, <<>>)
        m == Len(r.suggestions)
    IN [suggestions |-> [i \in 1..m |-> r.suggestions[m - i + 1]],
        generated |-> r.generated,
        origins |-> [i \in 1..m |-> [r.origins[m - i + 1] EXCEPT !.entry = n - @ + 1]]]

generateExactFullCommandAliasesStrategy(cmds, minFreq, existing, generated, minLen) ==
    exactStrategyFrom(cmds, 1, minFreq, existing, generated, minLen, <<>>, <<>>)


(***************************************************************************)
(* History pipeline: tail | sed | sort | uniq -c | sort -nr | head, and    *)
(* the parsing of its output                                               *)
(***************************************************************************)
defaultScanCount == 500
defaultHeadLimit == 10

determineScanCount(fcHistoryScanLimit, histSize) ==
    IF fcHistoryScanLimit > 0 THEN fcHistoryScanLimit
    ELSE IF histSize > 0 THEN histSize
    ELSE defaultScanCount

\* tail -n n
TailLines(lines, n) ==
    IF Len(lines) <= n THEN lines ELSE SubSeq(lines, Len(lines) - n + 1, Len(lines))

\* sed 's/[[:space:]]*$//' | sort | uniq -c : the distinct lines with their counts
UniqCounts(lines) ==
    LET stripped == [i \in 1..Len(lines) |-> TrimRight(lines[i])]
        distinct == { stripped[i] : i \in 1..Len(stripped) }
    IN [l \in distinct |-> Cardinality({ i \in 1..Len(stripped) : stripped[i] = l })]

\* sort -nr : every listing of the lines by decreasing count (ties in collation order)
SortedByCount(counts) ==
    LET n == Cardinality(DOMAIN counts)
    IN { f \in [1..n -> DOMAIN counts] :
           /\ \A i, j \in 1..n : i # j => f[i] # f[j]
           /\ \A i \in 1..(n - 1) : counts[f[i]] >= counts[f[i + 1]] }

\* head -n limit
HeadLines(lines, limit) == IF Len(lines) <= limit THEN lines ELSE SubSeq(lines, 1, limit)

RECURSIVE parsePipelineOutputFrom(_, _, _)
parsePipelineOutputFrom(lines, counts, i) ==
    IF i > Len(lines) THEN <<>>
    ELSE LET parts == Fields(lines[i])
         IN (IF Len(parts) < 1 THEN <<>>
             ELSE << [Command |-> Join(parts, " "), Count |-> counts[lines[i]]] >>)
            \o parsePipelineOutputFrom(lines, counts, i + 1)

\* the pipeline run by Execute and parsePipelineOutput on its output: the possible results
pipelineFrequencies(lines, scanLimit, outputLimit, histSize) ==
    LET scanned == TailLines(lines, determineScanCount(scanLimit, histSize))
        counts == UniqCounts(scanned)
        limit == IF outputLimit <= 0 THEN defaultHeadLimit ELSE outputLimit
    IN { parsePipelineOutputFrom(HeadLines(sorted, limit), counts, 1) : sorted \in SortedByCount(counts) }

\* a history provider is [HistoryFile, fileStat, executeFails]: the path NewHistoryProvider
\* stored ("" when none was found), what os.Stat finds there ("exists", "notexist", or
\* "denied" for any other Stat error) and whether the command executor returns an error
WorkingHistoryProvider ==
    [HistoryFile |-> "/home/u/.bash_history", fileStat |-> "exists", executeFails |-> FALSE]

\* what a call returns: the frequencies, whether the error is non-nil, and the number of
\* Execute calls it made
HistoryFailure(executeCalls) == [frequencies |-> <<>>, err |-> TRUE, executeCalls |-> executeCalls]

buildShellPipelineFails_NeverFails(hp) == FALSE

\* buildShellPipeline returns an error exactly when Stat reports that the file does not exist
buildShellPipelineFails(hp) == hp.fileStat = "notexist"

\* cat prints nothing for a file it cannot read
catLines(hp, lines) == IF hp.fileStat = "exists" THEN lines ELSE <<>>

getHistoryFrequencies(hp, lines, scanLimit, outputLimit, histSize) ==
    IF hp.HistoryFile = "" THEN { HistoryFailure(0) }
    ELSE IF buildShellPipelineFails(hp) THEN { HistoryFailure(0) }
    ELSE IF hp.executeFails THEN { HistoryFailure(1) }
    ELSE { [frequencies |-> freqs, err |-> FALSE, executeCalls |-> 1] :
             freqs \in pipelineFrequencies(catLines(hp, lines), scanLimit, outputLimit, histSize) }

GetCommandFrequencies(hp, lines, scanLimit, outputLimit, histSize) ==
    IF hp.HistoryFile = "" THEN { HistoryFailure(0) }
    ELSE getHistoryFrequencies(hp, lines, scanLimit, outputLimit, histSize)

(***************************************************************************)
(* Suggestion service helpers                                              *)
(***************************************************************************)
RECURSIVE filterPredefinedFrom(_, _, _, _)
filterPredefinedFrom(loaded, i, shellAl, onPath) ==
    IF i > Len(loaded) THEN <<>>
    ELSE (IF IsValidAliasName(loaded[i].Name, shellAl, onPath) THEN <<loaded[i]>> ELSE <<>>)
         \o filterPredefinedFrom(loaded, i + 1, shellAl, onPath)

\* provider is [configured, loadErr, aliases]; the result is [valid, loaded]
loadAndFilterPredefined(provider, shellAl, onPath) ==
    IF ~provider.configured \/ provider.loadErr
    THEN [valid |-> <<>>, loaded |-> <<>>]
    ELSE [valid |-> filterPredefinedFrom(provider.aliases, 1, shellAl, onPath),
          loaded |-> provider.aliases]

RECURSIVE putAllFrom(_, _, _)
putAllFrom(m, aliases, i) ==
    IF i > Len(aliases) THEN m
    ELSE putAllFrom(MapPut(m, aliases[i].Name, aliases[i].Command), aliases, i + 1)

buildForbiddenNamesMap_ShellOnly(shellAl, validPredefinedAliases) == shellAl

buildForbiddenNamesMap(shellAl, validPredefinedAliases) ==
    putAllFrom(shellAl, validPredefinedAliases, 1)

\* finalMap of combineSuggestions: the first alias of each name, predefined first
RECURSIVE finalMapFrom(_, _, _)
finalMapFrom(m, aliases, i) ==
    IF i > Len(aliases) THEN m
    ELSE finalMapFrom(IF aliases[i].Name \in DOMAIN m THEN m ELSE MapPut(m, aliases[i].Name, aliases[i]),
                      aliases, i + 1)

\* combineSuggestions returns the values of finalMap in map-iteration order
combineSuggestions(predefined, dynamic) ==
    LET finalMap == finalMapFrom(finalMapFrom(EmptyMap, predefined, 1), dynamic, 1)
        n == Cardinality(DOMAIN finalMap)
    IN { [i \in 1..n |-> finalMap[order[i]]] :
           order \in { f \in [1..n -> DOMAIN finalMap] : \A i, j \in 1..n : i # j => f[i] # f[j] } }


(***************************************************************************)
(* ShellConfigAccessor: the alias files under $HOME/.nicksh.  A file is    *)
(* its content, one string; reads and writes of the file system succeed    *)
(* unless the state says otherwise.                                        *)
(***************************************************************************)
\* bufio.Scanner with the default ScanLines over the file content
ScanLines(content) ==
    LET parts == Split(content, "\n")
    IN IF parts[Len(parts)] = "" THEN SubSeq(parts, 1, Len(parts) - 1) ELSE parts

\* the index of the first "=" of s, 0 when there is none
IndexOfEquals(s) ==
    IF Contains(s, "=") THEN CHOOSE i \in 1..Len(s) :
                                 CharAt(s, i) = "=" /\ \A j \in 1..(i - 1) : CharAt(s, j) # "="
    ELSE 0

parseAliasLineFromString(line) ==
    LET trimmedLine == TrimSpace(line)
        content == TrimPrefix(trimmedLine, "alias ")
        eq == IndexOfEquals(content)
        name == TrimSpace(SubSeq(content, 1, eq - 1))
        commandValue == TrimSpace(SubSeq(content, eq + 1, Len(content)))
        firstChar == CharAt(commandValue, 1)
        lastChar == CharAt(commandValue, Len(commandValue))
        notAlias == [name |-> "", command |-> "", isAlias |-> FALSE]
    IN IF HasPrefix(trimmedLine, "#") THEN notAlias
       ELSE IF ~HasPrefix(trimmedLine, "alias ") THEN notAlias
       ELSE IF eq = 0 THEN notAlias
       ELSE [name |-> name,
             command |-> IF Len(commandValue) >= 2
                            /\ ((firstChar = "'" /\ lastChar = "'") \/ (firstChar = "\"" /\ lastChar = "\""))
                         THEN SubSeq(commandValue, 2, Len(commandValue) - 1)
                         ELSE commandValue,
             isAlias |-> TRUE]

RECURSIVE aliasesOfLines(_, _, _)
aliasesOfLines(lines, i, aliases) ==
    IF i > Len(lines) THEN aliases
    ELSE LET parsed == parseAliasLineFromString(lines[i])
         IN aliasesOfLines(lines, i + 1,
                IF parsed.isAlias THEN MapPut(aliases, parsed.name, parsed.command) ELSE aliases)

\* os.Open of a file that does not exist gives the empty map and no error
getAliasesFromFile(file) ==
    IF ~file.exists THEN EmptyMap
    ELSE aliasesOfLines(ScanLines(file.content), 1, EmptyMap)

\* the aliases of a map put over those of another, name by name
MapMerge(aliases, fileAliases) ==
    [name \in (DOMAIN aliases) \cup (DOMAIN fileAliases) |->
        IF name \in DOMAIN fileAliases THEN fileAliases[name] ELSE aliases[name]]

\* one iteration of the loop over the directory entries: a directory is passed over, a
\* file that cannot be read is warned about and passed over, the aliases of any other file
\* are put into the map
mergeEntry_DropsAllOnError(aliases, entry) ==
    IF entry.isDir THEN aliases
    ELSE IF ~entry.readable THEN EmptyMap
    ELSE MapMerge(aliases, getAliasesFromFile([exists |-> TRUE, content |-> entry.content]))

mergeEntry(aliases, entry) ==
    IF entry.isDir THEN aliases
    ELSE IF ~entry.readable THEN aliases
    ELSE MapMerge(aliases, getAliasesFromFile([exists |-> TRUE, content |-> entry.content]))

RECURSIVE mergeEntriesFrom(_, _, _)
mergeEntriesFrom(dirEntries, i, aliases) ==
    IF i > Len(dirEntries) THEN aliases
    ELSE mergeEntriesFrom(dirEntries, i + 1, mergeEntry(aliases, dirEntries[i]))

\* what GetExistingAliases returns for the directory: the map and whether err is non-nil
GetExistingAliases(dir) ==
    IF ~dir.exists THEN [aliases |-> EmptyMap, err |-> FALSE]
    ELSE IF ~dir.listable THEN [aliases |-> EmptyMap, err |-> TRUE]
    ELSE [aliases |-> mergeEntriesFrom(dir.entries, 1, EmptyMap), err |-> FALSE]

aliasLineOf_Unquoted(newAlias) == "alias " \o newAlias.Name \o "=" \o newAlias.Command \o "\n"

\* fmt.Sprintf("alias %s='%s'\n", newAlias.Name, newAlias.Command)
aliasLineOf(newAlias) == "alias " \o newAlias.Name \o "='" \o newAlias.Command \o "'\n"

(***************************************************************************)
(* Bounds and input pools                                                  *)
(***************************************************************************)
MaxCmds == 2        \* longest command list handed to GenerateSuggestions
MaxHistLines == 2   \* longest history file
MaxTokens == 6      \* most tokens of a command string handed to Analyze on its own
MaxAddCalls == 3    \* most AddAlias calls in a row
MaxDirEntries == 3  \* most entries of the alias directory
MaxOutputLimit == 2 \* largest outputLimit asked of GetSuggestions

Calls == {1, 2}     \* two GenerateSuggestions calls on the one generator

MinFrequencyPool == { 2 }

\* counts below and at the threshold; sums of them go above it
CountPool == { 1, 2 }

SvcMinFrequencyPool == { 1, 2 }

ExistingAliasesPool ==
    { EmptyMap,
      [n \in {"gp", "ga."} |-> IF n = "gp" THEN "git push" ELSE "git add ."] }

ShellAliasesPool == { EmptyMap, [n \in {"ga"} |-> "git add"] }

PredefinedProviderPool ==
    { [configured |-> FALSE, loadErr |-> FALSE, aliases |-> <<>>],
      [configured |-> TRUE, loadErr |-> TRUE, aliases |-> <<>>],
      [configured |-> TRUE, loadErr |-> FALSE,
       aliases |-> << [Name |-> "gp", Command |-> "git push"] >>],
      [configured |-> TRUE, loadErr |-> FALSE,
       aliases |-> << [Name |-> "ga.", Command |-> "git add ."],
                      [Name |-> "ga", Command |-> "git add"] >>],
      [configured |-> TRUE, loadErr |-> FALSE,
       aliases |-> << [Name |-> "git", Command |-> "git status"],
                      [Name |-> "gpo", Command |-> "git push origin"] >>] }

PathExecutablesPool == { {}, {"ls", "ln", "git"} }

\* (scanLimit, HISTSIZE) pairs
ScanPool == { <<0, 0>>, <<0, 1>>, <<1, 0>> }

CommandFrequencyPool == [Command : CommandPool, Count : CountPool]

RepeatCommandFrequencyPool == [Command : RepeatCommandPool, Count : CountPool]

EdgeCommandFrequencyPool == [Command : EdgeCommandPool, Count : CountPool]

SeqsUpTo(S, n) == UNION { [1..k -> S] : k \in 0..n }

(***************************************************************************)
(* State                                                                   *)
(***************************************************************************)
VARIABLES
    \* arguments of GenerateSuggestions
    commands, existingAliases, minFrequency,
    \* locals of each GenerateSuggestions call
    pc, cmdFirstArgFreq, cmdFirstArgToAnalyzedCmd, pendingKeys,
    generatedNamesInThisRun, allSuggestions,
    \* for each appended suggestion: the strategy, the CommandName it was validated
    \* against, and the aggregation key or list entry it came from
    origin,
    \* environment of the suggestion service
    historyLines, histSizeEnv, shellAliases, predefinedProvider, pathExecutables,
    \* the history provider as NewHistoryProvider built it with the state of its history
    \* file and of its command executor, and whether reading the shell configuration fails
    historyProvider, shellConfigFails,
    \* the file system under $HOME/.nicksh: the generated_aliases file, the directory as
    \* GetExistingAliases finds it, and the AddAlias calls made so far with what they returned
    generatedAliasesFile, aliasDir, addCalls,
    \* GetSuggestions: arguments, position, locals and result
    svcArgs, svcpc, validPredefined, frequencies, result,
    \* the error GetSuggestions returned ("" is nil) and the calls it made on its ports and
    \* on the command executor, in order, each with whether it returned an error
    svcErr, portCalls,
    \* one call of a function of the program on its own: the function, its arguments that
    \* are not in the variables above, and what it returned
    fnCall

genArgs == <<commands, existingAliases, minFrequency>>
genLocals == <<pc, cmdFirstArgFreq, cmdFirstArgToAnalyzedCmd, pendingKeys,
               generatedNamesInThisRun, allSuggestions, origin>>
svcEnv == <<historyLines, histSizeEnv, shellAliases, predefinedProvider, pathExecutables,
            historyProvider, shellConfigFails,
            generatedAliasesFile, aliasDir, addCalls>>
svcLocals == <<svcArgs, svcpc, validPredefined, frequencies, result, svcErr, portCalls>>
vars == <<genArgs, genLocals, svcEnv, svcLocals, fnCall>>

GenLocalsInit(startPc) ==
    /\ pc = startPc
    /\ cmdFirstArgFreq = [c \in Calls |-> EmptyMap]
    /\ cmdFirstArgToAnalyzedCmd = [c \in Calls |-> EmptyMap]
    /\ pendingKeys = [c \in Calls |-> {}]
    /\ generatedNamesInThisRun = [c \in Calls |-> {}]
    /\ allSuggestions = [c \in Calls |-> <<>>]
    /\ origin = [c \in Calls |-> <<>>]

NoCall == [fn |-> "none", done |-> FALSE]

AbsentFile == [exists |-> FALSE, content |-> ""]

MissingDir == [exists |-> FALSE, listable |-> FALSE, entries |-> <<>>]

FilesUnused ==
    /\ generatedAliasesFile = AbsentFile
    /\ aliasDir = MissingDir
    /\ addCalls = <<>>

ServiceUnused ==
    /\ fnCall = NoCall
    /\ FilesUnused
    /\ historyLines = <<>>
    /\ histSizeEnv = 0
    /\ historyProvider = WorkingHistoryProvider
    /\ shellConfigFails = FALSE
    /\ shellAliases = EmptyMap
    /\ predefinedProvider = [configured |-> FALSE, loadErr |-> FALSE, aliases |-> <<>>]
    /\ pathExecutables = {}
    /\ svcArgs = [minFrequency |-> 0, scanLimit |-> 0, outputLimit |-> 0]
    /\ svcpc = "unused"
    /\ svcErr = ""
    /\ portCalls = <<>>
    /\ validPredefined = <<>>
    /\ frequencies = <<>>
    /\ result = <<>>

\* the generator called directly, once
Init ==
    /\ commands \in SeqsUpTo(CommandFrequencyPool, MaxCmds)
    /\ existingAliases \in ExistingAliasesPool
    /\ minFrequency \in MinFrequencyPool
    /\ GenLocalsInit([c \in Calls |-> IF c = 1 THEN "called" ELSE "idle"])
    /\ ServiceUnused

\* the generator called twice with the same arguments
RepeatInit ==
    /\ commands \in SeqsUpTo(RepeatCommandFrequencyPool, MaxCmds)
    /\ existingAliases \in ExistingAliasesPool
    /\ minFrequency \in MinFrequencyPool
    /\ GenLocalsInit([c \in Calls |-> "called"])
    /\ ServiceUnused

(***************************************************************************)
(* GenerateSuggestions                                                     *)
(***************************************************************************)
\* allSuggestions, generatedNamesInThisRun created; aggregation pass of strategy 1
StartAggregation_SharedNames(c) ==
    /\ pc[c] = "called"
    /\ LET agg == aggregateForCommandFirstArgStrategy(commands, minCommandEffectiveLength)
       IN /\ cmdFirstArgFreq' = [cmdFirstArgFreq EXCEPT ![c] = agg.freq]
          /\ cmdFirstArgToAnalyzedCmd' = [cmdFirstArgToAnalyzedCmd EXCEPT ![c] = agg.toAnalyzed]
          /\ pendingKeys' = [pendingKeys EXCEPT ![c] = DOMAIN agg.freq]
    /\ generatedNamesInThisRun' = [generatedNamesInThisRun EXCEPT ![c] =
           UNION { generatedNamesInThisRun[d] : d \in Calls }]
    /\ allSuggestions' = [allSuggestions EXCEPT ![c] = <<>>]
    /\ origin' = [origin EXCEPT ![c] = <<>>]
    /\ pc' = [pc EXCEPT ![c] = "strategy1"]
    /\ UNCHANGED <<genArgs, svcEnv, svcLocals, fnCall>>

StartAggregation(c) ==
    /\ pc[c] = "called"
    /\ LET agg == aggregateForCommandFirstArgStrategy(commands, minCommandEffectiveLength)
       IN /\ cmdFirstArgFreq' = [cmdFirstArgFreq EXCEPT ![c] = agg.freq]
          /\ cmdFirstArgToAnalyzedCmd' = [cmdFirstArgToAnalyzedCmd EXCEPT ![c] = agg.toAnalyzed]
          /\ pendingKeys' = [pendingKeys EXCEPT ![c] = DOMAIN agg.freq]
    /\ generatedNamesInThisRun' = [generatedNamesInThisRun EXCEPT ![c] = {}]
    /\ allSuggestions' = [allSuggestions EXCEPT ![c] = <<>>]
    /\ origin' = [origin EXCEPT ![c] = <<>>]
    /\ pc' = [pc EXCEPT ![c] = "strategy1"]
    /\ UNCHANGED <<genArgs, svcEnv, svcLocals, fnCall>>

EmitSubcommandAlias_CommandNameOnly(c) ==
    /\ pc[c] = "strategy1"
    /\ \E keyCmdFirstArg \in pendingKeys[c] :
         LET count == cmdFirstArgFreq[c][keyCmdFirstArg]
             analyzedForNameGen == cmdFirstArgToAnalyzedCmd[c][keyCmdFirstArg]
             proposedName == generateCommandSubcommandAliasName(analyzedForNameGen)
             emit == /\ ~aggregateBelowThreshold(count, minFrequency)
                     /\ isProposedNameValid(proposedName, analyzedForNameGen.CommandName,
                                            existingAliases, generatedNamesInThisRun[c])
         IN /\ pendingKeys' = [pendingKeys EXCEPT ![c] = @ \ {keyCmdFirstArg}]
            /\ allSuggestions' = [allSuggestions EXCEPT ![c] =
                   IF emit THEN Append(@, [Name |-> proposedName, Command |-> analyzedForNameGen.CommandName]) ELSE @]
            /\ origin' = [origin EXCEPT ![c] =
                   IF emit THEN Append(@, [strategy |-> 1, CommandName |-> analyzedForNameGen.CommandName,
                                           entry |-> 0, key |-> keyCmdFirstArg]) ELSE @]
            /\ generatedNamesInThisRun' = [generatedNamesInThisRun EXCEPT ![c] =
                   IF emit THEN @ \cup {proposedName} ELSE @]
    /\ UNCHANGED <<genArgs, pc, cmdFirstArgFreq, cmdFirstArgToAnalyzedCmd, svcEnv, svcLocals, fnCall>>

\* one iteration of "for keyCmdFirstArg, count := range cmdFirstArgFreq":
\* the range over a Go map visits the keys in an unspecified order
EmitSubcommandAlias(c) ==
    /\ pc[c] = "strategy1"
    /\ \E keyCmdFirstArg \in pendingKeys[c] :
         LET count == cmdFirstArgFreq[c][keyCmdFirstArg]
             analyzedForNameGen == cmdFirstArgToAnalyzedCmd[c][keyCmdFirstArg]
             proposedName == generateCommandSubcommandAliasName(analyzedForNameGen)
             emit == /\ ~aggregateBelowThreshold(count, minFrequency)
                     /\ isProposedNameValid(proposedName, analyzedForNameGen.CommandName,
                                            existingAliases, generatedNamesInThisRun[c])
         IN /\ pendingKeys' = [pendingKeys EXCEPT ![c] = @ \ {keyCmdFirstArg}]
            /\ allSuggestions' = [allSuggestions EXCEPT ![c] =
                   IF emit THEN Append(@, [Name |-> proposedName, Command |-> keyCmdFirstArg]) ELSE @]
            /\ origin' = [origin EXCEPT ![c] =
                   IF emit THEN Append(@, [strategy |-> 1, CommandName |-> analyzedForNameGen.CommandName,
                                           entry |-> 0, key |-> keyCmdFirstArg]) ELSE @]
            /\ generatedNamesInThisRun' = [generatedNamesInThisRun EXCEPT ![c] =
                   IF emit THEN @ \cup {proposedName} ELSE @]
    /\ UNCHANGED <<genArgs, pc, cmdFirstArgFreq, cmdFirstArgToAnalyzedCmd, svcEnv, svcLocals, fnCall>>

\* strategy 2 over the command list, append, return
RunExactStrategy_Prepend(c) ==
    /\ pc[c] = "strategy1"
    /\ pendingKeys[c] = {}
    /\ LET s2 == generateExactFullCommandAliasesStrategy(commands, minFrequency, existingAliases,
                     generatedNamesInThisRun[c], minCommandEffectiveLength)
       IN /\ allSuggestions' = [allSuggestions EXCEPT ![c] = s2.suggestions \o @]
          /\ origin' = [origin EXCEPT ![c] = s2.origins \o @]
          /\ generatedNamesInThisRun' = [generatedNamesInThisRun EXCEPT ![c] = s2.generated]
    /\ pc' = [pc EXCEPT ![c] = "returned"]
    /\ UNCHANGED <<genArgs, cmdFirstArgFreq, cmdFirstArgToAnalyzedCmd, pendingKeys, svcEnv, svcLocals, fnCall>>

RunExactStrategy(c) ==
    /\ pc[c] = "strategy1"
    /\ pendingKeys[c] = {}
    /\ LET s2 == generateExactFullCommandAliasesStrategy(commands, minFrequency, existingAliases,
                     generatedNamesInThisRun[c], minCommandEffectiveLength)
       IN /\ allSuggestions' = [allSuggestions EXCEPT ![c] = @ \o s2.suggestions]
          /\ origin' = [origin EXCEPT ![c] = @ \o s2.origins]
          /\ generatedNamesInThisRun' = [generatedNamesInThisRun EXCEPT ![c] = s2.generated]
    /\ pc' = [pc EXCEPT ![c] = "returned"]
    /\ UNCHANGED <<genArgs, cmdFirstArgFreq, cmdFirstArgToAnalyzedCmd, pendingKeys, svcEnv, svcLocals, fnCall>>

Next ==
    \/ StartAggregation(1)
    \/ EmitSubcommandAlias(1)
    \/ RunExactStrategy(1)

Spec == Init /\ [][Next]_vars

\* the generator called once on the edge inputs; the call is sequential code whose loops
\* range over finite collections, so a step that can be taken is taken
EdgeInit ==
    /\ commands \in SeqsUpTo(EdgeCommandFrequencyPool, MaxCmds)
    /\ existingAliases \in ExistingAliasesPool
    /\ minFrequency \in MinFrequencyPool
    /\ GenLocalsInit([c \in Calls |-> IF c = 1 THEN "called" ELSE "idle"])
    /\ ServiceUnused

\* ENABLED <<Next>>_vars: the call has not returned
NextEnabled == pc[1] \in {"called", "strategy1"}

\* weak fairness of Next, WF_vars(Next), written out with NextEnabled for ENABLED <<Next>>_vars
EdgeSpec == EdgeInit /\ [][Next]_vars /\ ([]<>(~NextEnabled) \/ []<><<Next>>_vars)

\* the steps of the two calls interleave
RepeatNext ==
    \/ \E c \in Calls : StartAggregation(c)
    \/ \E c \in Calls : EmitSubcommandAlias(c)
    \/ \E c \in Calls : RunExactStrategy(c)

RepeatSpec == RepeatInit /\ [][RepeatNext]_vars

(***************************************************************************)
(* GetSuggestions of the suggestion service, on call 1 of the generator    *)
(***************************************************************************)
HistoryProviderPool ==
    { WorkingHistoryProvider,
      [HistoryFile |-> "", fileStat |-> "notexist", executeFails |-> FALSE],
      [HistoryFile |-> "/home/u/.bash_history", fileStat |-> "notexist", executeFails |-> FALSE],
      [HistoryFile |-> "/home/u/.bash_history", fileStat |-> "exists", executeFails |-> TRUE] }

SvcInit ==
    /\ commands = <<>>
    /\ existingAliases = EmptyMap
    /\ minFrequency = 0
    /\ GenLocalsInit([c \in Calls |-> "idle"])
    /\ historyLines \in SeqsUpTo(HistoryLinePool, MaxHistLines)
    /\ \E sp \in ScanPool, ol \in 0..MaxOutputLimit, mf \in SvcMinFrequencyPool :
         /\ histSizeEnv = sp[2]
         /\ svcArgs = [minFrequency |-> mf, scanLimit |-> sp[1], outputLimit |-> ol]
    /\ shellAliases \in ShellAliasesPool
    /\ predefinedProvider \in PredefinedProviderPool
    /\ pathExecutables \in PathExecutablesPool
    /\ historyProvider \in HistoryProviderPool
    /\ shellConfigFails \in BOOLEAN
    /\ svcpc = "start"
    /\ svcErr = ""
    /\ portCalls = <<>>
    /\ fnCall = NoCall
    /\ FilesUnused
    /\ validPredefined = <<>>
    /\ frequencies = <<>>
    /\ result = <<>>

PortCall(port, err) == [port |-> port, err |-> err]

\* the calls GetSuggestions makes on the predefined alias provider
PredefinedCalls ==
    IF predefinedProvider.configured
    THEN << PortCall("GetPredefinedAliases", predefinedProvider.loadErr) >>
    ELSE <<>>

\* the calls GetCommandFrequencies made on the command executor
ExecuteCalls(out) == [i \in 1..out.executeCalls |-> PortCall("Execute", out.err)]

GetSuggestionsCall_IgnoresShellConfigError ==
    /\ svcpc = "start"
    /\ LET filtered == loadAndFilterPredefined(predefinedProvider, shellAliases, pathExecutables)
       IN \E out \in GetCommandFrequencies(historyProvider, historyLines, svcArgs.scanLimit,
                                           svcArgs.outputLimit, histSizeEnv) :
            /\ validPredefined' = filtered.valid
            /\ existingAliases' = buildForbiddenNamesMap(shellAliases, filtered.valid)
            /\ frequencies' = out.frequencies
            /\ commands' = out.frequencies
            /\ minFrequency' = svcArgs.minFrequency
            /\ pc' = [pc EXCEPT ![1] = "called"]
            /\ svcpc' = "generating"
            /\ portCalls' = << PortCall("GetExistingAliases", shellConfigFails) >> \o PredefinedCalls
                            \o << PortCall("GetCommandFrequencies", out.err) >> \o ExecuteCalls(out)
                            \o << PortCall("GenerateSuggestions", FALSE) >>
            /\ UNCHANGED svcErr
    /\ UNCHANGED <<cmdFirstArgFreq, cmdFirstArgToAnalyzedCmd, pendingKeys,
                   generatedNamesInThisRun, allSuggestions, origin, svcEnv, svcArgs, result, fnCall>>

\* GetSuggestions up to the call of GenerateSuggestions, or up to its return with an error
GetSuggestionsCall ==
    /\ svcpc = "start"
    /\ IF shellConfigFails
       THEN /\ svcErr' = "failed to get existing aliases for suggestion generation"
            /\ svcpc' = "failed"
            /\ portCalls' = << PortCall("GetExistingAliases", TRUE) >>
            /\ UNCHANGED <<genArgs, pc, validPredefined, frequencies>>
       ELSE LET filtered == loadAndFilterPredefined(predefinedProvider, shellAliases, pathExecutables)
            IN \E out \in GetCommandFrequencies(historyProvider, historyLines, svcArgs.scanLimit,
                                                svcArgs.outputLimit, histSizeEnv) :
                 /\ validPredefined' = filtered.valid
                 /\ IF out.err
                    THEN /\ svcErr' = "failed to get command frequencies"
                         /\ svcpc' = "failed"
                         /\ portCalls' = << PortCall("GetExistingAliases", FALSE) >> \o PredefinedCalls
                                         \o << PortCall("GetCommandFrequencies", TRUE) >>
                                         \o ExecuteCalls(out)
                         /\ UNCHANGED <<genArgs, pc, frequencies>>
                    ELSE /\ existingAliases' = buildForbiddenNamesMap(shellAliases, filtered.valid)
                         /\ frequencies' = out.frequencies
                         /\ commands' = out.frequencies
                         /\ minFrequency' = svcArgs.minFrequency
                         /\ pc' = [pc EXCEPT ![1] = "called"]
                         /\ svcpc' = "generating"
                         /\ portCalls' = << PortCall("GetExistingAliases", FALSE) >> \o PredefinedCalls
                                         \o << PortCall("GetCommandFrequencies", FALSE) >>
                                         \o ExecuteCalls(out)
                                         \o << PortCall("GenerateSuggestions", FALSE) >>
                         /\ UNCHANGED svcErr
    /\ UNCHANGED <<cmdFirstArgFreq, cmdFirstArgToAnalyzedCmd, pendingKeys,
                   generatedNamesInThisRun, allSuggestions, origin, svcEnv, svcArgs, result, fnCall>>

\* GetSuggestions after GenerateSuggestions returned: combineSuggestions
GetSuggestionsReturn ==
    /\ svcpc = "generating"
    /\ pc[1] = "returned"
    /\ result' \in combineSuggestions(<<>>, allSuggestions[1])
    /\ svcpc' = "done"
    /\ UNCHANGED <<genArgs, genLocals, svcEnv, svcArgs, validPredefined, frequencies, svcErr,
                   portCalls, fnCall>>

SvcNext ==
    \/ GetSuggestionsCall
    \/ StartAggregation(1)
    \/ EmitSubcommandAlias(1)
    \/ RunExactStrategy(1)
    \/ GetSuggestionsReturn

SvcSpec == SvcInit /\ [][SvcNext]_vars

(***************************************************************************)
(* The two name validators, each called on its own                         *)
(***************************************************************************)
ValidatorNamePool == { "", "g", "gs", "gss", "g.", "..", "g-s", "g s", "Gs", "G9", "ls" }

ValidatorCommandNamePool == { "git", "gs", "g." }

ValidatorExistingPool ==
    { EmptyMap,
      [n \in {"gs"} |-> "git status"],
      [n \in {"g.", "G9", "g-s"} |-> "git"] }

ValidatorGeneratedPool == { {}, {"gss"}, {"gs", "G9"} }

ValidatorPathPool == { {}, {"ls", "gs"} }

ValidatorInit ==
    /\ commands = <<>>
    /\ existingAliases \in ValidatorExistingPool
    /\ minFrequency = 0
    /\ GenLocalsInit([c \in Calls |-> "idle"])
    /\ historyLines = <<>>
    /\ histSizeEnv = 0
    /\ historyProvider = WorkingHistoryProvider
    /\ shellConfigFails = FALSE
    /\ shellAliases = EmptyMap
    /\ predefinedProvider = [configured |-> FALSE, loadErr |-> FALSE, aliases |-> <<>>]
    /\ pathExecutables \in ValidatorPathPool
    /\ svcArgs = [minFrequency |-> 0, scanLimit |-> 0, outputLimit |-> 0]
    /\ svcpc = "unused"
    /\ svcErr = ""
    /\ portCalls = <<>>
    /\ FilesUnused
    /\ validPredefined = <<>>
    /\ frequencies = <<>>
    /\ result = <<>>
    /\ \E fn \in {"isProposedNameValid", "IsValidAliasName"}, name \in ValidatorNamePool,
          commandName \in ValidatorCommandNamePool, generated \in ValidatorGeneratedPool :
         fnCall = [fn |-> fn, done |-> FALSE, name |-> name,
                   originalCommandName |-> IF fn = "isProposedNameValid" THEN commandName ELSE "",
                   generated |-> IF fn = "isProposedNameValid" THEN generated ELSE {},
                   returned |-> FALSE]

CallIsProposedNameValid ==
    /\ fnCall.fn = "isProposedNameValid"
    /\ ~fnCall.done
    /\ fnCall' = [fnCall EXCEPT !.done = TRUE,
                                !.returned = isProposedNameValid(fnCall.name, fnCall.originalCommandName,
                                                                 existingAliases, fnCall.generated)]
    /\ UNCHANGED <<genArgs, genLocals, svcEnv, svcLocals>>

CallIsValidAliasName ==
    /\ fnCall.fn = "IsValidAliasName"
    /\ ~fnCall.done
    /\ fnCall' = [fnCall EXCEPT !.done = TRUE,
                                !.returned = IsValidAliasName(fnCall.name, existingAliases, pathExecutables)]
    /\ UNCHANGED <<genArgs, genLocals, svcEnv, svcLocals>>

ValidatorNext ==
    \/ CallIsProposedNameValid
    \/ CallIsValidAliasName

ValidatorSpec == ValidatorInit /\ [][ValidatorNext]_vars

(***************************************************************************)
(* Analyze called on its own                                               *)
(***************************************************************************)
\* a word, a double quote that opens or closes a quoted stretch, a word with a pipe
AnalyzerTokenPool == { "a", "\"", "b|c" }

AnalyzerInit ==
    /\ commands = <<>>
    /\ existingAliases = EmptyMap
    /\ minFrequency = 0
    /\ GenLocalsInit([c \in Calls |-> "idle"])
    /\ historyLines = <<>>
    /\ histSizeEnv = 0
    /\ historyProvider = WorkingHistoryProvider
    /\ shellConfigFails = FALSE
    /\ shellAliases = EmptyMap
    /\ predefinedProvider = [configured |-> FALSE, loadErr |-> FALSE, aliases |-> <<>>]
    /\ pathExecutables = {}
    /\ svcArgs = [minFrequency |-> 0, scanLimit |-> 0, outputLimit |-> 0]
    /\ svcpc = "unused"
    /\ svcErr = ""
    /\ portCalls = <<>>
    /\ FilesUnused
    /\ validPredefined = <<>>
    /\ frequencies = <<>>
    /\ result = <<>>
    /\ \E tokens \in SeqsUpTo(AnalyzerTokenPool, MaxTokens), lead \in {"", " "} :
         fnCall = [fn |-> "Analyze", done |-> FALSE,
                   commandStr |-> lead \o Join(tokens, " "),
                   returned |-> Analyze("")]

CallAnalyze ==
    /\ fnCall.fn = "Analyze"
    /\ ~fnCall.done
    /\ fnCall' = [fnCall EXCEPT !.done = TRUE, !.returned = Analyze(fnCall.commandStr)]
    /\ UNCHANGED <<genArgs, genLocals, svcEnv, svcLocals>>

AnalyzerNext == CallAnalyze

AnalyzerSpec == AnalyzerInit /\ [][AnalyzerNext]_vars

(***************************************************************************)
(* AddAlias, called any number of times on the generated_aliases file      *)
(***************************************************************************)
AddAliasNamePool == { "a", "b." }

\* the last command holds a line break
AddAliasCommandPool == { "ls", "ls -l", "ls\nalias a='ll" }

AddAliasInit ==
    /\ commands = <<>>
    /\ existingAliases = EmptyMap
    /\ minFrequency = 0
    /\ GenLocalsInit([c \in Calls |-> "idle"])
    /\ historyLines = <<>>
    /\ histSizeEnv = 0
    /\ historyProvider = WorkingHistoryProvider
    /\ shellConfigFails = FALSE
    /\ shellAliases = EmptyMap
    /\ predefinedProvider = [configured |-> FALSE, loadErr |-> FALSE, aliases |-> <<>>]
    /\ pathExecutables = {}
    /\ svcArgs = [minFrequency |-> 0, scanLimit |-> 0, outputLimit |-> 0]
    /\ svcpc = "unused"
    /\ svcErr = ""
    /\ portCalls = <<>>
    /\ validPredefined = <<>>
    /\ frequencies = <<>>
    /\ result = <<>>
    /\ fnCall = NoCall
    /\ generatedAliasesFile \in { AbsentFile, [exists |-> TRUE, content |-> ""] }
    /\ aliasDir = MissingDir
    /\ addCalls = <<>>

\* a write in append mode starts a new line: the file is absent, empty, or ends in a line break
atLineStart(file) ==
    \/ ~file.exists
    \/ file.content = ""
    \/ CharAt(file.content, Len(file.content)) = "\n"

AddAlias(newAlias) ==
    /\ Len(addCalls) < MaxAddCalls
    /\ LET existingGeneratedAliases == getAliasesFromFile(generatedAliasesFile)
       IN IF newAlias.Name \in DOMAIN existingGeneratedAliases
          THEN /\ generatedAliasesFile' = generatedAliasesFile
               /\ addCalls' = Append(addCalls, [newAlias |-> newAlias, added |-> FALSE, err |-> FALSE,
                                             atLineStart |-> atLineStart(generatedAliasesFile)])
          ELSE /\ generatedAliasesFile' =
                      [exists |-> TRUE, content |-> generatedAliasesFile.content \o aliasLineOf(newAlias)]
               /\ addCalls' = Append(addCalls, [newAlias |-> newAlias, added |-> TRUE, err |-> FALSE,
                                             atLineStart |-> atLineStart(generatedAliasesFile)])
    /\ UNCHANGED <<genArgs, genLocals, historyLines, histSizeEnv, shellAliases, predefinedProvider,
                   pathExecutables, historyProvider, shellConfigFails, aliasDir, svcLocals, fnCall>>

AddAliasNext ==
    \E name \in AddAliasNamePool, command \in AddAliasCommandPool :
        AddAlias([Name |-> name, Command |-> command])

AddAliasSpec == AddAliasInit /\ [][AddAliasNext]_vars

(***************************************************************************)
(* GetExistingAliases, called on an alias directory                        *)
(***************************************************************************)
\* a subdirectory, a file that cannot be read, and three files; os.ReadDir gives the
\* entries sorted by file name, which is the order of the sequence
DirEntryPool ==
    { [isDir |-> TRUE, readable |-> TRUE, content |-> ""],
      [isDir |-> FALSE, readable |-> FALSE, content |-> "alias k=kubectl\n"],
      [isDir |-> FALSE, readable |-> TRUE, content |-> "alias g='git'\n"],
      [isDir |-> FALSE, readable |-> TRUE, content |-> "# mine\nalias g=gs\nalias ll=\"ls -l\"\n"],
      [isDir |-> FALSE, readable |-> TRUE, content |-> "export X=1\n"] }

AliasDirPool ==
    { MissingDir, [exists |-> TRUE, listable |-> FALSE, entries |-> <<>>] }
    \cup { [exists |-> TRUE, listable |-> TRUE, entries |-> e] :
              e \in SeqsUpTo(DirEntryPool, MaxDirEntries) }

DirInit ==
    /\ commands = <<>>
    /\ existingAliases = EmptyMap
    /\ minFrequency = 0
    /\ GenLocalsInit([c \in Calls |-> "idle"])
    /\ historyLines = <<>>
    /\ histSizeEnv = 0
    /\ historyProvider = WorkingHistoryProvider
    /\ shellConfigFails = FALSE
    /\ shellAliases = EmptyMap
    /\ predefinedProvider = [configured |-> FALSE, loadErr |-> FALSE, aliases |-> <<>>]
    /\ pathExecutables = {}
    /\ svcArgs = [minFrequency |-> 0, scanLimit |-> 0, outputLimit |-> 0]
    /\ svcpc = "unused"
    /\ svcErr = ""
    /\ portCalls = <<>>
    /\ validPredefined = <<>>
    /\ frequencies = <<>>
    /\ result = <<>>
    /\ fnCall = [fn |-> "GetExistingAliases", done |-> FALSE,
                 returned |-> [aliases |-> EmptyMap, err |-> FALSE]]
    /\ generatedAliasesFile = AbsentFile
    /\ aliasDir \in AliasDirPool
    /\ addCalls = <<>>

CallGetExistingAliases ==
    /\ fnCall.fn = "GetExistingAliases"
    /\ ~fnCall.done
    /\ fnCall' = [fnCall EXCEPT !.done = TRUE, !.returned = GetExistingAliases(aliasDir)]
    /\ UNCHANGED <<genArgs, genLocals, svcEnv, svcLocals>>

DirNext == CallGetExistingAliases

DirSpec == DirInit /\ [][DirNext]_vars

(***************************************************************************)
(* Properties                                                              *)
(***************************************************************************)
NamesOf(aliases) == { aliases[i].Name : i \in DOMAIN aliases }

\* the entries of the command list the exact strategy does not skip
ExactEligible(i) ==
    LET analyzed == analyzerAnalyze(commands[i].Command)
    IN /\ ~analyzed.IsComplex
       /\ analyzed.EffectiveLength >= 4
       /\ analyzed.CommandName # ""

ExactCandidate(i) == generateExactCommandAliasName(analyzerAnalyze(commands[i].Command))

\* the candidate name of an aggregation key of call c
SubcommandCandidate(c, k) == generateCommandSubcommandAliasName(cmdFirstArgToAnalyzedCmd[c][k])

\* the summed Count of the entries of the command list that map to key k
RECURSIVE SumCountFrom(_, _)
SumCountFrom(k, i) ==
    IF i > Len(commands) THEN 0
    ELSE (IF aggregationKeyOf(analyzerAnalyze(commands[i].Command), 4) = k THEN commands[i].Count ELSE 0)
         + SumCountFrom(k, i + 1)

\* a name no rule but the frequency test and the run's name set can reject
AcceptableName(name, commandName) ==
    /\ Len(name) >= 2
    /\ \A i \in 1..Len(name) : CharAt(name, i) \in AlnumSet \cup {"."}
    /\ name # commandName
    /\ name \notin DOMAIN existingAliases

\* C1: in every GenerateSuggestions call the suggestions appended so far, and so the
\* returned list, have pairwise distinct names.
C1_NamesPairwiseDistinct ==
    \A c \in Calls : \A i, j \in DOMAIN allSuggestions[c] :
        i # j => allSuggestions[c][i].Name # allSuggestions[c][j].Name

\* two aggregation keys above the threshold proposed the same name, and the call returned it
C1_Witness ==
    /\ pc[1] = "returned"
    /\ \E k1, k2 \in DOMAIN cmdFirstArgFreq[1] :
         /\ k1 # k2
         /\ cmdFirstArgFreq[1][k1] >= minFrequency
         /\ cmdFirstArgFreq[1][k2] >= minFrequency
         /\ SubcommandCandidate(1, k1) = SubcommandCandidate(1, k2)
         /\ SubcommandCandidate(1, k1) \in NamesOf(allSuggestions[1])

\* C2: no suggestion of a GenerateSuggestions call has a name that is a key of the
\* existingAliases map of the call.
C2_NoExistingAliasName ==
    \A c \in Calls : \A i \in DOMAIN allSuggestions[c] :
        allSuggestions[c][i].Name \notin DOMAIN existingAliases

\* an entry above the threshold proposed the name of an existing alias that expands to
\* another command, and the call returned
C2_Witness ==
    /\ pc[1] = "returned"
    /\ \E i \in DOMAIN commands :
         /\ commands[i].Count >= minFrequency
         /\ ExactEligible(i)
         /\ ExactCandidate(i) \in DOMAIN existingAliases
         /\ existingAliases[ExactCandidate(i)] # commands[i].Command

\* C3: two GenerateSuggestions calls with the same arguments return the same list.
C3_SameArgumentsSameList ==
    (pc[1] = "returned" /\ pc[2] = "returned") => allSuggestions[1] = allSuggestions[2]

\* C4: no suggestion returned by GetSuggestions has the name of an executable on the
\* command search path.
C4_NoSuggestionShadowsExecutable ==
    svcpc = "done" => \A i \in DOMAIN result : result[i].Name \notin pathExecutables

\* C5: with outputLimit > 0, GetSuggestions returns at most outputLimit suggestions.
C5_AtMostOutputLimit ==
    (svcpc = "done" /\ svcArgs.outputLimit > 0) => Len(result) <= svcArgs.outputLimit

\* the predefined aliases the provider delivered
LoadedPredefined ==
    IF predefinedProvider.configured /\ ~predefinedProvider.loadErr
    THEN predefinedProvider.aliases ELSE <<>>

\* C6 as claimed: no suggestion returned by GetSuggestions has the name of an existing
\* shell alias or of any predefined alias loaded from the provider.
C6_NoTieWithLoadedPredefined ==
    svcpc = "done" =>
        \A i \in DOMAIN result :
            /\ result[i].Name \notin DOMAIN shellAliases
            /\ result[i].Name \notin NamesOf(LoadedPredefined)

\* C6 amended: no suggestion returned by GetSuggestions has the name of an existing
\* shell alias or of a loaded predefined alias that is a valid alias name (non-empty,
\* alphanumeric, not an existing shell alias, not an executable on the search path).
C6_NoTieWithValidPredefined ==
    svcpc = "done" =>
        \A i \in DOMAIN result :
            /\ result[i].Name \notin DOMAIN shellAliases
            /\ \A j \in DOMAIN LoadedPredefined :
                 LET pn == LoadedPredefined[j].Name
                 IN (/\ Len(pn) >= 1
                     /\ \A n \in 1..Len(pn) : CharAt(pn, n) \in AlnumSet
                     /\ pn \notin DOMAIN shellAliases
                     /\ pn \notin pathExecutables) => result[i].Name # pn

\* an aggregation key above the threshold proposed the name of a valid predefined alias
C6_Witness ==
    /\ svcpc = "done"
    /\ \E k \in DOMAIN cmdFirstArgFreq[1] :
         /\ cmdFirstArgFreq[1][k] >= minFrequency
         /\ SubcommandCandidate(1, k) \in NamesOf(validPredefined)
         /\ SubcommandCandidate(1, k) \notin DOMAIN shellAliases

\* C7: every suggestion of the subcommand strategy has a name matching ^[a-zA-Z0-9]+$.
C7_SubcommandNamesAlphanumeric ==
    \A c \in Calls : \A i \in DOMAIN allSuggestions[c] :
        origin[c][i].strategy = 1 =>
            \A n \in 1..Len(allSuggestions[c][i].Name) :
                CharAt(allSuggestions[c][i].Name, n) \in AlnumSet

\* C8: every suggestion of a GenerateSuggestions call has a name of at least 2
\* characters, all of them in [a-zA-Z0-9.].
C8_NameLengthAndAlphabet ==
    \A c \in Calls : \A i \in DOMAIN allSuggestions[c] :
        LET name == allSuggestions[c][i].Name
        IN /\ Len(name) >= 2
           /\ \A n \in 1..Len(name) : CharAt(name, n) \in AlnumSet \cup {"."}

\* the call returned after an entry above the threshold proposed a 1-character name and
\* an aggregation key above the threshold proposed a name with a character outside
\* [a-zA-Z0-9.]; neither name is in the list
C8_Witness ==
    /\ pc[1] = "returned"
    /\ \E i \in DOMAIN commands :
         /\ commands[i].Count >= minFrequency
         /\ ExactEligible(i)
         /\ Len(ExactCandidate(i)) = 1
         /\ ExactCandidate(i) \notin NamesOf(allSuggestions[1])
    /\ \E k \in DOMAIN cmdFirstArgFreq[1] :
         /\ cmdFirstArgFreq[1][k] >= minFrequency
         /\ \E n \in 1..Len(SubcommandCandidate(1, k)) :
              CharAt(SubcommandCandidate(1, k), n) \notin AlnumSet \cup {"."}
         /\ SubcommandCandidate(1, k) \notin NamesOf(allSuggestions[1])

\* C9: no suggestion has a name equal to the CommandName of the analyzed command it
\* was generated from.
C9_NameIsNotCommandName ==
    \A c \in Calls : \A i \in DOMAIN allSuggestions[c] :
        /\ allSuggestions[c][i].Name # origin[c][i].CommandName
        /\ origin[c][i].strategy = 2 =>
             allSuggestions[c][i].Name # analyzerAnalyze(allSuggestions[c][i].Command).CommandName

\* the call returned after an entry above the threshold fell back to its own
\* two-letter command name
C9_Witness ==
    /\ pc[1] = "returned"
    /\ \E i \in DOMAIN commands :
         /\ commands[i].Count >= minFrequency
         /\ ExactEligible(i)
         /\ ExactCandidate(i) = analyzerAnalyze(commands[i].Command).CommandName
         /\ Len(ExactCandidate(i)) = 2
         /\ ExactCandidate(i) \notin NamesOf(allSuggestions[1])

\* C10: the frequency threshold is inclusive.  In a returned call every exact
\* suggestion comes from an entry with Count >= minFrequency and every subcommand
\* suggestion from a key whose summed Count >= minFrequency; every entry and every key
\* that reaches minFrequency and proposes an acceptable name has that name in the
\* list; a list of one entry below the threshold gives no suggestion.
C10_ThresholdInclusive ==
    \A c \in Calls : pc[c] = "returned" =>
        /\ \A i \in DOMAIN allSuggestions[c] :
             IF origin[c][i].strategy = 2
             THEN commands[origin[c][i].entry].Count >= minFrequency
             ELSE SumCountFrom(origin[c][i].key, 1) >= minFrequency
        /\ \A i \in DOMAIN commands :
             (/\ commands[i].Count >= minFrequency
              /\ ExactEligible(i)
              /\ AcceptableName(ExactCandidate(i), analyzerAnalyze(commands[i].Command).CommandName))
             => ExactCandidate(i) \in NamesOf(allSuggestions[c])
        /\ \A k \in DOMAIN cmdFirstArgFreq[c] :
             (/\ SumCountFrom(k, 1) >= minFrequency
              /\ AcceptableName(SubcommandCandidate(c, k), cmdFirstArgToAnalyzedCmd[c][k].CommandName))
             => SubcommandCandidate(c, k) \in NamesOf(allSuggestions[c])
        /\ (Len(commands) = 1 /\ commands[1].Count < minFrequency) => allSuggestions[c] = <<>>

\* the call returned an exact suggestion for an entry with Count = minFrequency and
\* none for an entry with Count = minFrequency - 1 and an acceptable name
C10_Witness ==
    /\ pc[1] = "returned"
    /\ \E i \in DOMAIN allSuggestions[1] :
         /\ origin[1][i].strategy = 2
         /\ commands[origin[1][i].entry].Count = minFrequency
    /\ \E i \in DOMAIN commands :
         /\ commands[i].Count = minFrequency - 1
         /\ ExactEligible(i)
         /\ AcceptableName(ExactCandidate(i), analyzerAnalyze(commands[i].Command).CommandName)
         /\ ExactCandidate(i) \notin NamesOf(allSuggestions[1])

\* the entries of the command list that map to an aggregation key: EffectiveLength >= 4,
\* a CommandName, and an argument that does not start with "-"
KeyArgIndexes(i) ==
    LET analyzed == analyzerAnalyze(commands[i].Command)
    IN { j \in DOMAIN analyzed.PotentialArgs : ~HasPrefix(analyzed.PotentialArgs[j], "-") }

MapsToKey(i) ==
    LET analyzed == analyzerAnalyze(commands[i].Command)
    IN /\ analyzed.EffectiveLength >= 4
       /\ analyzed.CommandName # ""
       /\ KeyArgIndexes(i) # {}

KeyOfEntry(i) ==
    LET analyzed == analyzerAnalyze(commands[i].Command)
        j == CHOOSE x \in KeyArgIndexes(i) : \A y \in KeyArgIndexes(i) : x <= y
    IN analyzed.CommandName \o " " \o analyzed.PotentialArgs[j]

RECURSIVE SumOfCounts(_)
SumOfCounts(entries) ==
    IF entries = {} THEN 0
    ELSE LET i == CHOOSE x \in entries : TRUE
         IN commands[i].Count + SumOfCounts(entries \ {i})

EntriesOfKey(k) == { i \in DOMAIN commands : MapsToKey(i) /\ KeyOfEntry(i) = k }

InputKeys == { KeyOfEntry(i) : i \in { x \in DOMAIN commands : MapsToKey(x) } }

\* C11: once the aggregation pass has run, the keys of cmdFirstArgFreq are the keys the
\* input entries map to and the count of a key is the sum of Count over its entries; every
\* subcommand alias has the Command of a key whose sum reaches minFrequency; and a key whose
\* sum reaches minFrequency, with a name no rule rejects and no other such key proposes,
\* has its alias (Name the candidate, Command the key) in the returned list.
C11_AggregateCountIsSum ==
    \A c \in Calls : pc[c] \in {"strategy1", "returned"} =>
        /\ DOMAIN cmdFirstArgFreq[c] = InputKeys
        /\ \A k \in InputKeys : cmdFirstArgFreq[c][k] = SumOfCounts(EntriesOfKey(k))
        /\ \A n \in DOMAIN allSuggestions[c] : origin[c][n].strategy = 1 =>
              /\ allSuggestions[c][n].Command = origin[c][n].key
              /\ origin[c][n].key \in InputKeys
              /\ SumOfCounts(EntriesOfKey(origin[c][n].key)) >= minFrequency
        /\ pc[c] = "returned" =>
              \A k \in InputKeys :
                  (/\ SumOfCounts(EntriesOfKey(k)) >= minFrequency
                   /\ AcceptableName(SubcommandCandidate(c, k), cmdFirstArgToAnalyzedCmd[c][k].CommandName)
                   /\ \A k2 \in InputKeys \ {k} :
                          SumOfCounts(EntriesOfKey(k2)) >= minFrequency
                              => SubcommandCandidate(c, k2) # SubcommandCandidate(c, k))
                  => \E n \in DOMAIN allSuggestions[c] :
                         /\ origin[c][n].strategy = 1
                         /\ allSuggestions[c][n] = [Name |-> SubcommandCandidate(c, k), Command |-> k]

\* two entries, each below minFrequency, map to one key that is no line of the input, and
\* the call returned the alias of the key
C11_Witness ==
    /\ pc[1] = "returned"
    /\ \E k \in InputKeys :
         /\ Cardinality(EntriesOfKey(k)) >= 2
         /\ \A i \in EntriesOfKey(k) : commands[i].Count < minFrequency /\ commands[i].Command # k
         /\ \E n \in DOMAIN allSuggestions[1] :
               origin[1][n].strategy = 1 /\ allSuggestions[1][n].Command = k

\* C12: when an entry the exact strategy does not skip proposes the name of a subcommand
\* alias of the same call, the returned list holds that name once, on the subcommand alias;
\* for the one-entry list [{"cd ..", Count}] with Count >= minFrequency and no existing
\* aliases the returned list is exactly [{Name: "up", Command: "cd .."}].
C12_SubcommandAliasWins ==
    \A c \in Calls : pc[c] = "returned" =>
        /\ \A i \in DOMAIN commands, n \in DOMAIN allSuggestions[c] :
             (/\ ExactEligible(i)
              /\ commands[i].Count >= minFrequency
              /\ origin[c][n].strategy = 1
              /\ allSuggestions[c][n].Name = ExactCandidate(i))
             => \A m \in DOMAIN allSuggestions[c] :
                    allSuggestions[c][m].Name = ExactCandidate(i) => m = n
        /\ (/\ Len(commands) = 1
            /\ commands[1].Command = "cd .."
            /\ commands[1].Count >= minFrequency
            /\ existingAliases = EmptyMap)
           => /\ allSuggestions[c] = << [Name |-> "up", Command |-> "cd .."] >>
              /\ origin[c][1].strategy = 1

\* the call on [{"cd ..", Count}] with Count >= minFrequency and no existing aliases
\* returned, and both strategies proposed "up"
C12_Witness ==
    /\ pc[1] = "returned"
    /\ Len(commands) = 1
    /\ commands[1].Command = "cd .."
    /\ commands[1].Count >= minFrequency
    /\ existingAliases = EmptyMap
    /\ ExactEligible(1)
    /\ ExactCandidate(1) = "up"
    /\ SubcommandCandidate(1, "cd ..") = "up"

\* C13: in the list of a GenerateSuggestions call no alias of the exact-command strategy
\* stands before an alias of the subcommand strategy.
C13_SubcommandAliasesFirst ==
    \A c \in Calls : \A m, n \in DOMAIN allSuggestions[c] :
        (m < n /\ origin[c][n].strategy = 1) => origin[c][m].strategy = 1

\* a returned list that holds aliases of both strategies
C13_Witness ==
    /\ pc[1] = "returned"
    /\ \E m, n \in DOMAIN allSuggestions[1] :
         origin[1][m].strategy = 1 /\ origin[1][n].strategy = 2

IsAliasList(l) ==
    /\ DOMAIN l = 1..Len(l)
    /\ \A n \in DOMAIN l : DOMAIN l[n] = {"Name", "Command"}

\* C14: on every input, the edge inputs included, the call returns; what it returns is a
\* list of aliases, possibly empty; and an entry the exact strategy does not skip, with
\* Count >= minFrequency and a name no rule rejects, has its name in the list whatever
\* entries before it were skipped or rejected.
C14_TotalAndSkipsSilently ==
    <>(/\ pc[1] = "returned"
       /\ IsAliasList(allSuggestions[1])
       /\ \A i \in DOMAIN commands :
            (/\ ExactEligible(i)
             /\ commands[i].Count >= minFrequency
             /\ AcceptableName(ExactCandidate(i), analyzerAnalyze(commands[i].Command).CommandName))
            => ExactCandidate(i) \in NamesOf(allSuggestions[1]))

\* a call returned the alias of an entry that stands after an entry with no command name
\* or with a one-character name the validator rejects
C14_Witness ==
    /\ pc[1] = "returned"
    /\ \E i, j \in DOMAIN commands :
         /\ i < j
         /\ \/ analyzerAnalyze(commands[i].Command).CommandName = ""
            \/ (ExactEligible(i) /\ commands[i].Count >= minFrequency /\ Len(ExactCandidate(i)) < 2)
         /\ \E n \in DOMAIN allSuggestions[1] :
               origin[1][n].strategy = 2 /\ origin[1][n].entry = j

\* the subcommand aliases of a call run alone that visits the aggregation keys in the
\* order given
RECURSIVE SubcommandRunAlone(_, _, _, _, _, _)
SubcommandRunAlone(order, i, freq, toAnalyzed, suggestions, generated) ==
    IF i > Len(order) THEN [suggestions |-> suggestions, generated |-> generated]
    ELSE LET k == order[i]
             name == generateCommandSubcommandAliasName(toAnalyzed[k])
         IN IF freq[k] >= minFrequency
               /\ isProposedNameValid(name, toAnalyzed[k].CommandName, existingAliases, generated)
            THEN SubcommandRunAlone(order, i + 1, freq, toAnalyzed,
                                    Append(suggestions, [Name |-> name, Command |-> k]),
                                    generated \cup {name})
            ELSE SubcommandRunAlone(order, i + 1, freq, toAnalyzed, suggestions, generated)

KeyOrders(keys) ==
    { o \in [1..Cardinality(keys) -> keys] : \A i, j \in DOMAIN o : i # j => o[i] # o[j] }

\* the lists one GenerateSuggestions call on the arguments can return when it runs alone
ResultsOfCallAlone ==
    LET agg == aggregateForCommandFirstArgStrategy(commands, minCommandEffectiveLength)
    IN { LET s1 == SubcommandRunAlone(o, 1, agg.freq, agg.toAnalyzed, <<>>, {})
             s2 == generateExactFullCommandAliasesStrategy(commands, minFrequency, existingAliases,
                                                          s1.generated, minCommandEffectiveLength)
         IN s1.suggestions \o s2.suggestions : o \in KeyOrders(DOMAIN agg.freq) }

\* C15: with two calls on one generator, in any interleaving of their steps, the
\* generated-names set of a call that has started holds exactly the names that call has
\* appended, and the list a call returns is a list the call can return when it runs alone.
C15_NamesSetOwnedByCall ==
    \A c \in Calls :
        /\ pc[c] \in {"strategy1", "returned"} =>
             generatedNamesInThisRun[c] = NamesOf(allSuggestions[c])
        /\ pc[c] = "returned" => allSuggestions[c] \in ResultsOfCallAlone

\* call 2 appended a name that call 1 had appended before call 2 started its strategies
\* or while both were running
C15_Witness ==
    /\ pc[1] = "returned"
    /\ pc[2] = "strategy1"
    /\ allSuggestions[2] # <<>>
    /\ NamesOf(allSuggestions[2]) \subseteq NamesOf(allSuggestions[1])

C17_ValidAliasNameExactly ==
    (fnCall.fn = "IsValidAliasName" /\ fnCall.done) =>
        (fnCall.returned <=>
             (/\ fnCall.name # ""
              /\ \A i \in 1..Len(fnCall.name) : CharAt(fnCall.name, i) \in AlnumSet
              /\ fnCall.name \notin DOMAIN existingAliases
              /\ fnCall.name \notin pathExecutables))

\* IsValidAliasName returned for a name that only the search path rules out
C17_Witness ==
    /\ fnCall.fn = "IsValidAliasName"
    /\ fnCall.done
    /\ fnCall.name \in pathExecutables
    /\ fnCall.name \notin DOMAIN existingAliases
    /\ \A i \in 1..Len(fnCall.name) : CharAt(fnCall.name, i) \in AlnumSet
    /\ ~fnCall.returned

ShellMetacharacters == { "|", "&", ";", "<", ">", "(", ")" }

HasShellMetacharacter(s) == \E i \in 1..Len(s) : CharAt(s, i) \in ShellMetacharacters

\* C18: Analyze returns IsComplex true exactly when the command string holds one of
\* | & ; < > ( ) or has more than 5 whitespace-delimited tokens.
C18_ComplexIffMetacharOrOverFiveFields ==
    (fnCall.fn = "Analyze" /\ fnCall.done) =>
        (fnCall.returned.IsComplex <=>
             (HasShellMetacharacter(fnCall.commandStr) \/ Len(Fields(fnCall.commandStr)) > 5))

\* C18, amended: Analyze returns IsComplex true exactly when the command string holds one
\* of | & ; < > ( ) or parseArguments splits it into more than 5 arguments, a quoted stretch
\* with its blanks being part of one argument; for a string without a double quote or a
\* backslash the arguments are the whitespace-delimited tokens.
C18_ComplexIffMetacharOrOverFiveArguments ==
    (fnCall.fn = "Analyze" /\ fnCall.done) =>
        /\ fnCall.returned.IsComplex <=>
             (\/ HasShellMetacharacter(fnCall.commandStr)
              \/ Len(parseArguments(TrimSpace(fnCall.commandStr))) > 5)
        /\ ~(\E i \in 1..Len(fnCall.commandStr) : CharAt(fnCall.commandStr, i) \in {"\"", "\\"})
             => (fnCall.returned.IsComplex <=>
                   (HasShellMetacharacter(fnCall.commandStr) \/ Len(Fields(fnCall.commandStr)) > 5))

\* Analyze returned for a string of more than 5 whitespace-delimited tokens, none with a
\* metacharacter, that a quoted stretch makes fewer arguments
C18_Witness ==
    /\ fnCall.fn = "Analyze"
    /\ fnCall.done
    /\ ~HasShellMetacharacter(fnCall.commandStr)
    /\ Len(Fields(fnCall.commandStr)) > 5
    /\ Len(parseArguments(TrimSpace(fnCall.commandStr))) <= 5
    /\ ~fnCall.returned.IsComplex

\* the lines of the generated_aliases file that are alias lines of the name
AliasLinesOf(file, name) ==
    LET lines == ScanLines(file.content)
    IN { i \in DOMAIN lines : LET parsed == parseAliasLineFromString(lines[i])
                              IN parsed.isAlias /\ parsed.name = name }

AddAliasNames == { addCalls[k].newAlias.Name : k \in DOMAIN addCalls }

\* C19: in a sequence of AddAlias calls from an absent or empty generated_aliases file, a
\* call whose Name has an alias line in the file returns (false, nil) and leaves the file as
\* it is, any other call appends the one line alias Name='Command' and returns (true, nil);
\* the file never has two alias lines for one name, and the line of a name is the line of
\* the first call for that name.
C19_AddAliasOneLinePerName ==
    /\ \A k \in DOMAIN addCalls : ~addCalls[k].err
    /\ \A name \in AddAliasNames :
         LET first == CHOOSE k \in DOMAIN addCalls :
                          /\ addCalls[k].newAlias.Name = name
                          /\ \A j \in 1..(k - 1) : addCalls[j].newAlias.Name # name
             lines == ScanLines(generatedAliasesFile.content)
         IN /\ Cardinality(AliasLinesOf(generatedAliasesFile, name)) = 1
            /\ addCalls[first].added
            /\ \A k \in DOMAIN addCalls :
                 (addCalls[k].newAlias.Name = name /\ k # first) => ~addCalls[k].added
            /\ \E i \in DOMAIN lines :
                 lines[i] = "alias " \o name \o "='" \o addCalls[first].newAlias.Command \o "'"
    /\ Len(ScanLines(generatedAliasesFile.content))
         = Cardinality({ k \in DOMAIN addCalls : addCalls[k].added })

\* the entries of the alias directory that are files and can be read
ReadableFiles ==
    { i \in DOMAIN aliasDir.entries : ~aliasDir.entries[i].isDir /\ aliasDir.entries[i].readable }

\* the alias lines of entry i, parsed
AliasLinesOfEntry(i) ==
    LET lines == ScanLines(aliasDir.entries[i].content)
    IN { parseAliasLineFromString(lines[n]) : n \in { x \in DOMAIN lines :
                                                    parseAliasLineFromString(lines[x]).isAlias } }

\* C20: GetExistingAliases returns an error exactly when the alias directory exists and
\* cannot be listed; a missing directory gives the empty map; otherwise the map holds every
\* alias name of every readable file of the directory, each with a command one of these
\* files gives it, and nothing else, whatever entries are directories or cannot be read.
C20_UnreadableEntrySkipped ==
    (fnCall.fn = "GetExistingAliases" /\ fnCall.done) =>
        /\ fnCall.returned.err <=> (aliasDir.exists /\ ~aliasDir.listable)
        /\ ~aliasDir.exists => fnCall.returned.aliases = EmptyMap
        /\ (aliasDir.exists /\ aliasDir.listable) =>
             /\ DOMAIN fnCall.returned.aliases
                  = UNION { { a.name : a \in AliasLinesOfEntry(i) } : i \in ReadableFiles }
             /\ \A name \in DOMAIN fnCall.returned.aliases :
                  \E i \in ReadableFiles : \E a \in AliasLinesOfEntry(i) :
                      a.name = name /\ a.command = fnCall.returned.aliases[name]

\* the call returned the aliases of a file that stands after a file that cannot be read
C20_Witness ==
    /\ fnCall.fn = "GetExistingAliases"
    /\ fnCall.done
    /\ ~fnCall.returned.err
    /\ \E i, j \in DOMAIN aliasDir.entries :
         /\ i < j
         /\ ~aliasDir.entries[i].isDir
         /\ ~aliasDir.entries[i].readable
         /\ j \in ReadableFiles
         /\ AliasLinesOfEntry(j) # {}
    /\ fnCall.returned.aliases # EmptyMap

(***************************************************************************)
(* Error handling of GetSuggestions                                        *)
(***************************************************************************)
CalledPorts == { portCalls[i].port : i \in DOMAIN portCalls }

PortFailed(port) == \E i \in DOMAIN portCalls : portCalls[i].port = port /\ portCalls[i].err

\* C21: when reading the existing aliases fails, GetSuggestions returns a non-nil error and
\* no suggestions without calling the history provider or the generator; when
\* GetCommandFrequencies fails it returns a non-nil error and no suggestions; when only
\* loading the predefined aliases fails it returns no error, and what it returns are the
\* suggestions of the generator.
C21_ErrorsOfGetSuggestions ==
    /\ PortFailed("GetExistingAliases") =>
         /\ svcpc = "failed" /\ svcErr # "" /\ result = <<>>
         /\ CalledPorts = {"GetExistingAliases"}
         /\ pc[1] = "idle"
    /\ PortFailed("GetCommandFrequencies") =>
         /\ svcpc = "failed" /\ svcErr # "" /\ result = <<>>
         /\ pc[1] = "idle"
    /\ (/\ PortFailed("GetPredefinedAliases")
        /\ ~PortFailed("GetExistingAliases")
        /\ ~PortFailed("GetCommandFrequencies")) =>
         /\ svcpc \in {"generating", "done"} /\ svcErr = ""
         /\ "GenerateSuggestions" \in CalledPorts
         /\ svcpc = "done" => NamesOf(result) = NamesOf(allSuggestions[1])

\* GetCommandFrequencies failed after the predefined aliases failed to load
C21_Witness ==
    /\ svcpc = "failed"
    /\ PortFailed("GetPredefinedAliases")
    /\ PortFailed("GetCommandFrequencies")
    /\ Len(historyLines) > 0

\* suggestions were returned although the predefined aliases failed to load
C21_SuggestionsAfterLoadFailure ==
    /\ svcpc = "done"
    /\ PortFailed("GetPredefinedAliases")
    /\ Len(result) > 0

\* reading the existing aliases failed
C21_ShellConfigFailure == svcpc = "failed" /\ PortFailed("GetExistingAliases")

(***************************************************************************)
(* GetCommandFrequencies and getHistoryFrequencies of the history provider *)
(***************************************************************************)
HistoryProviderStates ==
    [HistoryFile : {"", "/home/u/.bash_history"},
     fileStat : {"exists", "notexist", "denied"},
     executeFails : BOOLEAN]

HistoryInit ==
    /\ commands = <<>>
    /\ existingAliases = EmptyMap
    /\ minFrequency = 0
    /\ GenLocalsInit([c \in Calls |-> "idle"])
    /\ historyLines \in SeqsUpTo(HistoryLinePool, MaxHistLines)
    /\ \E sp \in ScanPool, ol \in 0..MaxOutputLimit :
         /\ histSizeEnv = sp[2]
         /\ svcArgs = [minFrequency |-> 0, scanLimit |-> sp[1], outputLimit |-> ol]
    /\ historyProvider \in HistoryProviderStates
    /\ shellConfigFails = FALSE
    /\ shellAliases = EmptyMap
    /\ predefinedProvider = [configured |-> FALSE, loadErr |-> FALSE, aliases |-> <<>>]
    /\ pathExecutables = {}
    /\ svcpc = "unused"
    /\ svcErr = ""
    /\ portCalls = <<>>
    /\ FilesUnused
    /\ validPredefined = <<>>
    /\ frequencies = <<>>
    /\ result = <<>>
    /\ fnCall \in { [fn |-> fn, done |-> FALSE, returned |-> HistoryFailure(0)] :
                      fn \in {"GetCommandFrequencies", "getHistoryFrequencies"} }

CallGetCommandFrequencies ==
    /\ fnCall.fn = "GetCommandFrequencies" /\ ~fnCall.done
    /\ \E out \in GetCommandFrequencies(historyProvider, historyLines, svcArgs.scanLimit,
                                        svcArgs.outputLimit, histSizeEnv) :
         fnCall' = [fnCall EXCEPT !.done = TRUE, !.returned = out]
    /\ UNCHANGED <<genArgs, genLocals, svcEnv, svcLocals>>

CallGetHistoryFrequencies ==
    /\ fnCall.fn = "getHistoryFrequencies" /\ ~fnCall.done
    /\ \E out \in getHistoryFrequencies(historyProvider, historyLines, svcArgs.scanLimit,
                                        svcArgs.outputLimit, histSizeEnv) :
         fnCall' = [fnCall EXCEPT !.done = TRUE, !.returned = out]
    /\ UNCHANGED <<genArgs, genLocals, svcEnv, svcLocals>>

HistoryNext ==
    \/ CallGetCommandFrequencies
    \/ CallGetHistoryFrequencies

HistorySpec == HistoryInit /\ [][HistoryNext]_vars

\* C22: a call of GetCommandFrequencies or getHistoryFrequencies on a provider without a
\* history file path, or whose history file does not exist, returns a non-nil error and no
\* frequencies without having called Execute; a call in which Execute was called and
\* returned an error returns a non-nil error and no frequencies.
C22_NoExecuteWithoutHistoryFile ==
    fnCall.done =>
        /\ (historyProvider.HistoryFile = "" \/ historyProvider.fileStat = "notexist") =>
             /\ fnCall.returned.executeCalls = 0
             /\ fnCall.returned.err
             /\ fnCall.returned.frequencies = <<>>
        /\ (fnCall.returned.executeCalls > 0 /\ historyProvider.executeFails) =>
             /\ fnCall.returned.err
             /\ fnCall.returned.frequencies = <<>>

\* the provider has a path, the file behind it is gone, and the history would have had lines
C22_Witness ==
    /\ fnCall.done
    /\ historyProvider.HistoryFile # ""
    /\ historyProvider.fileStat = "notexist"
    /\ Len(historyLines) > 0

\* Execute was called and failed
C22_ExecuteFailed == fnCall.done /\ fnCall.returned.executeCalls > 0 /\ historyProvider.executeFails

(***************************************************************************)
(* The two name generators on their own, on the analyzer's answer for a    *)
(* command line                                                            *)
(***************************************************************************)
\* every variable but fnCall in its unused state
OnlyFnCall ==
    /\ commands = <<>>
    /\ existingAliases = EmptyMap
    /\ minFrequency = 0
    /\ GenLocalsInit([c \in Calls |-> "idle"])
    /\ historyLines = <<>>
    /\ histSizeEnv = 0
    /\ historyProvider = WorkingHistoryProvider
    /\ shellConfigFails = FALSE
    /\ shellAliases = EmptyMap
    /\ predefinedProvider = [configured |-> FALSE, loadErr |-> FALSE, aliases |-> <<>>]
    /\ pathExecutables = {}
    /\ svcArgs = [minFrequency |-> 0, scanLimit |-> 0, outputLimit |-> 0]
    /\ svcpc = "unused"
    /\ svcErr = ""
    /\ portCalls = <<>>
    /\ FilesUnused
    /\ validPredefined = <<>>
    /\ frequencies = <<>>
    /\ result = <<>>

MaxNameArgs == 4

NameCommandPool == { "git", "R" }

NameArgPool == { "add", ".", "..", "-m", "--no", "src/Main", "./..." }

PathArgPool ==
    { "./scripts/build.sh", "/usr/bin/Tool", "src/main/", "src/.git", "/", ".a/.b", "lib/pkg/.c/", "status" }

NameInit ==
    /\ OnlyFnCall
    /\ \/ \E name \in NameCommandPool, args \in SeqsUpTo(NameArgPool, MaxNameArgs) :
            fnCall = [fn |-> "generateExactCommandAliasName", done |-> FALSE,
                      analyzedCmd |-> Analyze(Join(<<name>> \o args, " ")), returned |-> ""]
       \/ \E name \in NameCommandPool, firstArg \in PathArgPool, rest \in SeqsUpTo({"-v"}, 1) :
            fnCall = [fn |-> "generateCommandSubcommandAliasName", done |-> FALSE,
                      analyzedCmd |-> Analyze(Join(<<name, firstArg>> \o rest, " ")), returned |-> ""]

CallGenerateExactCommandAliasName ==
    /\ fnCall.fn = "generateExactCommandAliasName" /\ ~fnCall.done
    /\ fnCall' = [fnCall EXCEPT !.done = TRUE,
                                !.returned = generateExactCommandAliasName(fnCall.analyzedCmd)]
    /\ UNCHANGED <<genArgs, genLocals, svcEnv, svcLocals>>

CallGenerateCommandSubcommandAliasName ==
    /\ fnCall.fn = "generateCommandSubcommandAliasName" /\ ~fnCall.done
    /\ fnCall' = [fnCall EXCEPT !.done = TRUE,
                                !.returned = generateCommandSubcommandAliasName(fnCall.analyzedCmd)]
    /\ UNCHANGED <<genArgs, genLocals, svcEnv, svcLocals>>

NameNext ==
    \/ CallGenerateExactCommandAliasName
    \/ CallGenerateCommandSubcommandAliasName

NameSpec == NameInit /\ [][NameNext]_vars

\* what each argument of an analyzed command contributes to the exact name, in order
ArgContributions(analyzedCmd) ==
    [i \in 1..Len(analyzedCmd.PotentialArgs) |-> partToAddOf(ToLower(analyzedCmd.PotentialArgs[i]))]

IsNonDotPart(part) == part # "" /\ part # "."

NonDotContributions(analyzedCmd) == SelectSeq(ArgContributions(analyzedCmd), IsNonDotPart)

ExactNameCallDone == fnCall.fn = "generateExactCommandAliasName" /\ fnCall.done

\* C23: for a non-complex command the name generateExactCommandAliasName returns has at most
\* 4 characters that are not dots; after the command initial its non-dot characters are the
\* contributions of the first 3 contributing arguments (of all of them when there are fewer),
\* in order, and once a third one was taken nothing follows it in the name.
C23_AtMostThreeArgInitials ==
    (ExactNameCallDone /\ ~fnCall.analyzedCmd.IsComplex) =>
        LET name == fnCall.returned
            nd == NonDotContributions(fnCall.analyzedCmd)
            k == IF Len(nd) < 3 THEN Len(nd) ELSE 3
        IN /\ Len(RemoveAll(name, ".")) <= 4
           /\ nd # <<>> =>
                /\ RemoveAll(SubSeq(name, 2, Len(name)), ".") = Join(SubSeq(nd, 1, k), "")
                /\ Len(nd) >= 3 => CharAt(name, Len(name)) = nd[3]

\* four arguments contribute a character and the command is not complex
C23_Witness ==
    /\ ExactNameCallDone
    /\ ~fnCall.analyzedCmd.IsComplex
    /\ Len(NonDotContributions(fnCall.analyzedCmd)) >= 4
    /\ Len(fnCall.returned) = 4

\* the number of arguments before argument i that contribute a character other than a dot
NonDotBefore(analyzedCmd, i) ==
    Cardinality({ j \in 1..(i - 1) : IsNonDotPart(ArgContributions(analyzedCmd)[j]) })

\* the indexes of the arguments that are exactly "."
DotArgs(analyzedCmd) ==
    { i \in 1..Len(analyzedCmd.PotentialArgs) : analyzedCmd.PotentialArgs[i] = "." }

\* what argument i adds to the name: a dot needs an earlier non-dot character, and nothing
\* is added once 3 non-dot characters were
RECURSIVE ExpectedPartsFrom(_, _)
ExpectedPartsFrom(analyzedCmd, i) ==
    IF i > Len(analyzedCmd.PotentialArgs) THEN ""
    ELSE LET part == ArgContributions(analyzedCmd)[i]
             before == NonDotBefore(analyzedCmd, i)
         IN (IF before < 3 /\ (part = "." => before >= 1) THEN part ELSE "")
            \o ExpectedPartsFrom(analyzedCmd, i + 1)

\* C24: in the name generateExactCommandAliasName returns for a non-complex command, an
\* argument that is exactly "." stands as a "." only if an earlier argument has added a
\* character (a "." right after the command initial is dropped), and dots are not counted
\* in the cap of 3: the name is the command initial followed by what the arguments add,
\* or the first two letters of the command name when they add nothing.
C24_DotOnlyAfterArgInitial ==
    (/\ ExactNameCallDone
     /\ ~fnCall.analyzedCmd.IsComplex
     /\ ~IsCdUp(fnCall.analyzedCmd)
     /\ DotArgs(fnCall.analyzedCmd) # {}) =>
        LET analyzedCmd == fnCall.analyzedCmd
            cmdNameLower == ToLower(analyzedCmd.CommandName)
            parts == ExpectedPartsFrom(analyzedCmd, 1)
        IN /\ fnCall.returned =
                IF parts # "" THEN CharAt(cmdNameLower, 1) \o parts
                ELSE IF Len(cmdNameLower) >= 2 THEN SubSeq(cmdNameLower, 1, 2)
                ELSE cmdNameLower
           /\ analyzedCmd.PotentialArgs[1] = "." =>
                (Len(fnCall.returned) < 2 \/ CharAt(fnCall.returned, 2) # "."
                 \/ fnCall.returned = SubSeq(cmdNameLower, 1, 2))

\* a "." kept after an initial, followed by two more initials: the dot was not counted
C24_Witness ==
    /\ ExactNameCallDone
    /\ fnCall.analyzedCmd.PotentialArgs = << "add", ".", "-m", "--no" >>
    /\ fnCall.returned = "ga.mn"

\* a "." right after the command initial is dropped, a later one is kept
C24_LeadingDotDropped ==
    /\ ExactNameCallDone
    /\ fnCall.analyzedCmd.PotentialArgs = << ".", "add", ".", "-m" >>
    /\ fnCall.returned = "ga.m"

\* "git add ." gives "ga."
C24_GitAddDot ==
    /\ ExactNameCallDone
    /\ fnCall.analyzedCmd.CommandName = "git"
    /\ fnCall.analyzedCmd.PotentialArgs = << "add", "." >>
    /\ fnCall.returned = "ga."

SubcommandNameCallDone == fnCall.fn = "generateCommandSubcommandAliasName" /\ fnCall.done

\* the first argument of the call holds a "/"
PathFirstArg ==
    /\ fnCall.analyzedCmd.CommandName # ""
    /\ ~IsCdUp(fnCall.analyzedCmd)
    /\ Len(fnCall.analyzedCmd.PotentialArgs) > 0
    /\ Contains(fnCall.analyzedCmd.PotentialArgs[1], "/")

\* the last non-empty segment of a path that does not start with ".", "" when there is none
LastQualifyingSegment(path) ==
    LET parts == Split(path, "/") IN significantPartFrom(parts, Len(parts))

\* C25: for a first argument containing "/", generateCommandSubcommandAliasName returns the
\* command initial followed by the lowercase first character of the last non-empty path
\* segment that does not start with ".", or by the first character of the raw argument when
\* no segment qualifies.
C25_LastQualifyingSegmentInitial ==
    (SubcommandNameCallDone /\ PathFirstArg) =>
        LET firstArg == fnCall.analyzedCmd.PotentialArgs[1]
            segment == LastQualifyingSegment(firstArg)
        IN fnCall.returned =
             CharAt(ToLower(fnCall.analyzedCmd.CommandName), 1)
             \o CharAt(ToLower(IF segment # "" THEN segment ELSE firstArg), 1)

\* what the code does: only the segment after the last "/" is looked at
C25_LastSegmentOnly ==
    (SubcommandNameCallDone /\ PathFirstArg) =>
        LET firstArg == fnCall.analyzedCmd.PotentialArgs[1]
            parts == Split(firstArg, "/")
            lastPart == parts[Len(parts)]
        IN fnCall.returned =
             CharAt(ToLower(fnCall.analyzedCmd.CommandName), 1)
             \o CharAt(ToLower(IF lastPart # "" /\ ~HasPrefix(lastPart, ".") THEN lastPart ELSE firstArg), 1)

\* entry i of the command list reaches the name check of the exact strategy with a name
\* that only the names taken earlier in the run can make invalid
ExactCompetes(i) ==
    /\ ExactEligible(i)
    /\ commands[i].Count >= minFrequency
    /\ AcceptableName(ExactCandidate(i), analyzerAnalyze(commands[i].Command).CommandName)

\* the suggestions of call c that the exact strategy made for entry i
ExactSuggestionsOf(c, i) ==
    { n \in DOMAIN allSuggestions[c] : origin[c][n].strategy = 2 /\ origin[c][n].entry = i }

\* the entries before i that compete for the candidate name of entry i
EarlierCompetitors(i) ==
    { j \in 1..(i - 1) : ExactCompetes(j) /\ ExactCandidate(j) = ExactCandidate(i) }

\* C26: in a returned GenerateSuggestions call, an entry of the exact strategy gets no other
\* name than its candidate name; of the entries competing for one candidate name the first
\* in the list gets the alias unless the subcommand strategy already holds the name, and
\* every later one, like every entry whose name the subcommand strategy holds, gets nothing.
C26_FirstEntryKeepsName ==
    \A c \in Calls : pc[c] = "returned" =>
        \A i \in DOMAIN commands :
            /\ \A n \in ExactSuggestionsOf(c, i) : allSuggestions[c][n].Name = ExactCandidate(i)
            /\ ExactCompetes(i) =>
                 LET claimed == \E n \in DOMAIN allSuggestions[c] :
                                    /\ origin[c][n].strategy = 1
                                    /\ allSuggestions[c][n].Name = ExactCandidate(i)
                 IN IF claimed \/ EarlierCompetitors(i) # {}
                    THEN ExactSuggestionsOf(c, i) = {}
                    ELSE Cardinality(ExactSuggestionsOf(c, i)) = 1

\* two different commands competed for one name that the subcommand strategy did not hold:
\* the first got it, the second got nothing
C26_Witness ==
    /\ pc[1] = "returned"
    /\ \E i, j \in DOMAIN commands :
         /\ i < j
         /\ commands[i].Command # commands[j].Command
         /\ ExactCompetes(i) /\ ExactCompetes(j)
         /\ ExactCandidate(i) = ExactCandidate(j)
         /\ ExactSuggestionsOf(1, i) # {}
         /\ ExactSuggestionsOf(1, j) = {}

\* an entry lost its name to an alias of the subcommand strategy
C26_ClaimedBySubcommand ==
    /\ pc[1] = "returned"
    /\ \E i \in DOMAIN commands, n \in DOMAIN allSuggestions[1] :
         /\ ExactCompetes(i)
         /\ origin[1][n].strategy = 1
         /\ allSuggestions[1][n].Name = ExactCandidate(i)
         /\ ExactSuggestionsOf(1, i) = {}

\* C27: every alias in the list of a GenerateSuggestions call, of either strategy, has a
\* Name with fewer characters than its Command.
C27_NameShorterThanCommand ==
    \A c \in Calls : \A n \in DOMAIN allSuggestions[c] :
        Len(allSuggestions[c][n].Name) < Len(allSuggestions[c][n].Command)

\* the call returned aliases of both strategies, one of them only 2 characters shorter
\* than its command
C27_Witness ==
    /\ pc[1] = "returned"
    /\ \E m, n \in DOMAIN allSuggestions[1] :
         /\ origin[1][m].strategy = 1
         /\ origin[1][n].strategy = 2
         /\ Len(allSuggestions[1][m].Command) - Len(allSuggestions[1][m].Name) <= 2

\* the same on the name generators alone: a name of the exact generator is shorter than a
\* command line of at least 4 non-blank characters that is not complex, and a name of the
\* subcommand generator has at most 2 characters while an aggregation key has at least 3
C27_GeneratedNameShorter ==
    /\ (/\ ExactNameCallDone
        /\ ~fnCall.analyzedCmd.IsComplex
        /\ fnCall.analyzedCmd.EffectiveLength >= minCommandEffectiveLength)
       => Len(fnCall.returned) < Len(fnCall.analyzedCmd.Original)
    /\ SubcommandNameCallDone =>
         /\ Len(fnCall.returned) <= 2
         /\ LET key == aggregationKeyOf(fnCall.analyzedCmd, minCommandEffectiveLength)
            IN key # "" => Len(key) >= 3

(***************************************************************************)
(* AddAlias followed by GetExistingAliases on the same directory           *)
(***************************************************************************)
MaxListedAdds == 2

ListedNamePool == { "a", "b." }

\* commands of one line: with a blank, with single quotes, with "=", in double quotes
ListedCommandPool == { "ls -l", "echo 'hi'", "X=1 env", "\"a b\"" }

OtherFileDefinesA == [isDir |-> FALSE, readable |-> TRUE, content |-> "alias a=vim\n"]

OtherFileDefinesG == [isDir |-> FALSE, readable |-> TRUE, content |-> "alias g='git'\n"]

UnreadableFileDefinesA == [isDir |-> FALSE, readable |-> FALSE, content |-> "alias a=vim\n"]

\* the other entries of $HOME/.nicksh in the order of os.ReadDir, and how many of them
\* are sorted before generated_aliases
ListedDirPool ==
    { [exists |-> TRUE, listable |-> TRUE, entries |-> e[1], before |-> e[2]] :
        e \in { << <<>>, 0 >>,
                << <<OtherFileDefinesA>>, 0 >>,
                << <<OtherFileDefinesA>>, 1 >>,
                << <<OtherFileDefinesA, OtherFileDefinesG>>, 1 >>,
                << <<OtherFileDefinesG, OtherFileDefinesA>>, 1 >>,
                << <<UnreadableFileDefinesA>>, 0 >>,
                << <<[isDir |-> TRUE, readable |-> TRUE, content |-> ""], OtherFileDefinesG>>, 2 >> } }

\* the directory as os.ReadDir lists it, generated_aliases included when it exists
directoryListing(dir, file) ==
    [exists |-> dir.exists,
     listable |-> dir.listable,
     entries |-> SubSeq(dir.entries, 1, dir.before)
                 \o (IF file.exists
                     THEN << [isDir |-> FALSE, readable |-> TRUE, content |-> file.content] >>
                     ELSE <<>>)
                 \o SubSeq(dir.entries, dir.before + 1, Len(dir.entries))]

ListedInit ==
    /\ commands = <<>>
    /\ existingAliases = EmptyMap
    /\ minFrequency = 0
    /\ GenLocalsInit([c \in Calls |-> "idle"])
    /\ historyLines = <<>>
    /\ histSizeEnv = 0
    /\ historyProvider = WorkingHistoryProvider
    /\ shellConfigFails = FALSE
    /\ shellAliases = EmptyMap
    /\ predefinedProvider = [configured |-> FALSE, loadErr |-> FALSE, aliases |-> <<>>]
    /\ pathExecutables = {}
    /\ svcArgs = [minFrequency |-> 0, scanLimit |-> 0, outputLimit |-> 0]
    /\ svcpc = "unused"
    /\ svcErr = ""
    /\ portCalls = <<>>
    /\ validPredefined = <<>>
    /\ frequencies = <<>>
    /\ result = <<>>
    /\ fnCall = [fn |-> "GetExistingAliases", done |-> FALSE,
                 returned |-> [aliases |-> EmptyMap, err |-> FALSE]]
    /\ generatedAliasesFile \in { AbsentFile, [exists |-> TRUE, content |-> ""],
                                  [exists |-> TRUE, content |-> "alias a='old'\n"],
                                  [exists |-> TRUE, content |-> "alias k=kubectl"] }
    /\ aliasDir \in ListedDirPool
    /\ addCalls = <<>>

AddAliasBeforeListing ==
    /\ ~fnCall.done
    /\ Len(addCalls) < MaxListedAdds
    /\ \E name \in ListedNamePool, command \in ListedCommandPool :
         AddAlias([Name |-> name, Command |-> command])

CallGetExistingAliasesAfterAdds ==
    /\ fnCall.fn = "GetExistingAliases"
    /\ ~fnCall.done
    /\ fnCall' = [fnCall EXCEPT !.done = TRUE,
                                !.returned = GetExistingAliases(directoryListing(aliasDir, generatedAliasesFile))]
    /\ UNCHANGED <<genArgs, genLocals, svcEnv, svcLocals>>

ListedNext ==
    \/ AddAliasBeforeListing
    \/ CallGetExistingAliasesAfterAdds

ListedSpec == ListedInit /\ [][ListedNext]_vars

\* the AddAlias calls that returned (true, nil)
AddedCalls == { i \in DOMAIN addCalls : addCalls[i].added /\ ~addCalls[i].err }

\* GetExistingAliases returned a map that gives the alias its command
ListedAs(newAlias) ==
    /\ ~fnCall.returned.err
    /\ newAlias.Name \in DOMAIN fnCall.returned.aliases
    /\ fnCall.returned.aliases[newAlias.Name] = newAlias.Command

\* a readable file that os.ReadDir lists after generated_aliases defines the name
RedefinedLater(name) ==
    \E j \in (aliasDir.before + 1)..Len(aliasDir.entries) :
        /\ ~aliasDir.entries[j].isDir
        /\ aliasDir.entries[j].readable
        /\ name \in DOMAIN getAliasesFromFile([exists |-> TRUE, content |-> aliasDir.entries[j].content])

\* C28 as claimed: after AddAlias(Name, Command) returned (true, nil), GetExistingAliases
\* maps Name to Command, whatever other files the alias directory holds.
C28_AddedAliasListed ==
    fnCall.done => \A i \in AddedCalls : ListedAs(addCalls[i].newAlias)

\* C28 amended: after AddAlias(Name, Command) returned (true, nil) on a generated_aliases
\* file that was absent, empty or ended in a line break, GetExistingAliases maps Name to
\* Command unless a readable file of the alias directory that is listed after
\* generated_aliases defines an alias of that Name.
C28_AddedAliasListedUnlessRedefined ==
    fnCall.done =>
        \A i \in AddedCalls :
            (addCalls[i].atLineStart /\ ~RedefinedLater(addCalls[i].newAlias.Name))
            => ListedAs(addCalls[i].newAlias)

\* the alias was appended to a last line without a line break and is not listed
C28_JoinedToLastLine ==
    /\ fnCall.done
    /\ \E i \in AddedCalls :
         /\ ~addCalls[i].atLineStart
         /\ addCalls[i].newAlias.Name \notin DOMAIN fnCall.returned.aliases

\* an added alias whose command holds quotes is listed although a file listed before
\* generated_aliases defines the same name
C28_Witness ==
    /\ fnCall.done
    /\ \E i \in AddedCalls :
         /\ addCalls[i].newAlias = [Name |-> "a", Command |-> "echo 'hi'"]
         /\ aliasDir.before = 1
         /\ aliasDir.entries[1] = OtherFileDefinesA
         /\ ListedAs(addCalls[i].newAlias)

(***************************************************************************)
(* Numeric selection: parseNumericSelectionInput and                       *)
(* selectAliasesNumerically                                                *)
(***************************************************************************)
\* strings.TrimSpace on a line read from the terminal: line breaks are white space too
LineSpaceSet == SpaceSet \cup {"\n", "\r"}

RECURSIVE TrimLineLeft(_)
TrimLineLeft(s) ==
    IF Len(s) > 0 /\ CharAt(s, 1) \in LineSpaceSet THEN TrimLineLeft(SubSeq(s, 2, Len(s))) ELSE s

RECURSIVE TrimLineRight(_)
TrimLineRight(s) ==
    IF Len(s) > 0 /\ CharAt(s, Len(s)) \in LineSpaceSet
    THEN TrimLineRight(SubSeq(s, 1, Len(s) - 1)) ELSE s

TrimLine(s) == TrimLineRight(TrimLineLeft(s))

DigitValue(ch) == (CHOOSE i \in 1..10 : CharAt(Digits, i) = ch) - 1

RECURSIVE DigitsValue(_, _)
DigitsValue(s, acc) ==
    IF Len(s) = 0 THEN acc
    ELSE DigitsValue(SubSeq(s, 2, Len(s)), 10 * acc + DigitValue(CharAt(s, 1)))

\* strconv.Atoi: an optional sign and at least one decimal digit, nothing else
Atoi(s) ==
    LET signed == Len(s) > 0 /\ CharAt(s, 1) \in {"+", "-"}
        digits == IF signed THEN SubSeq(s, 2, Len(s)) ELSE s
    IN IF Len(digits) = 0 \/ \E i \in 1..Len(digits) : CharAt(digits, i) \notin CharsOf(Digits)
       THEN [ok |-> FALSE, value |-> 0]
       ELSE [ok |-> TRUE,
             value |-> IF signed /\ CharAt(s, 1) = "-"
                       THEN 0 - DigitsValue(digits, 0) ELSE DigitsValue(digits, 0)]

\* strings.SplitN(part, "-", 2) of a part that holds a "-"
SplitAtFirstDash(part) ==
    LET i == CHOOSE k \in 1..Len(part) :
                 CharAt(part, k) = "-" /\ \A j \in 1..(k - 1) : CharAt(part, j) # "-"
    IN << SubSeq(part, 1, i - 1), SubSeq(part, i + 1, Len(part)) >>

rangeIsInvalid_NoUpperBound(start, end, suggestionCount) == start <= 0 \/ end < start

rangeIsInvalid(start, end, suggestionCount) ==
    start <= 0 \/ end < start \/ end > suggestionCount

\* the 0-based indexes one part of the input selects, or an error
selectionsOfPart(rawPart, suggestionCount) ==
    LET part == TrimLine(rawPart) IN
    IF Contains(part, "-")
    THEN LET rangeParts == SplitAtFirstDash(part)
             start == Atoi(rangeParts[1])
             end == Atoi(rangeParts[2])
         IN IF ~start.ok \/ ~end.ok \/ rangeIsInvalid(start.value, end.value, suggestionCount)
            THEN [err |-> TRUE, selections |-> <<>>]
            ELSE [err |-> FALSE,
                  selections |-> [i \in 1..(end.value - start.value + 1) |-> start.value + i - 2]]
    ELSE LET num == Atoi(part)
         IN IF ~num.ok \/ num.value <= 0 \/ num.value > suggestionCount
            THEN [err |-> TRUE, selections |-> <<>>]
            ELSE [err |-> FALSE, selections |-> << num.value - 1 >>]

\* the loop over the parts: it returns at the first part in error
RECURSIVE selectionsFrom(_, _, _, _)
selectionsFrom(parts, i, suggestionCount, selections) ==
    IF i > Len(parts) THEN [err |-> FALSE, selections |-> selections]
    ELSE LET s == selectionsOfPart(parts[i], suggestionCount)
         IN IF s.err THEN [err |-> TRUE, selections |-> <<>>]
            ELSE selectionsFrom(parts, i + 1, suggestionCount, selections \o s.selections)

\* the first occurrence of each index, in order
RECURSIVE uniqueSelectionIndices(_, _, _)
uniqueSelectionIndices(selections, i, seen) ==
    IF i > Len(selections) THEN <<>>
    ELSE IF selections[i] \in seen THEN uniqueSelectionIndices(selections, i + 1, seen)
    ELSE << selections[i] >> \o uniqueSelectionIndices(selections, i + 1, seen \cup {selections[i]})

\* the result is [indices, err]; indices is empty when err holds (the Go result is nil)
parseNumericSelectionInput(input, suggestionCount) ==
    LET trimmedInput == TrimLine(ToLower(input)) IN
    IF trimmedInput = "none" THEN [indices |-> <<>>, err |-> FALSE]
    ELSE IF trimmedInput = "all"
         THEN [indices |-> [i \in 1..suggestionCount |-> i - 1], err |-> FALSE]
    ELSE LET r == selectionsFrom(Split(trimmedInput, ","), 1, suggestionCount, <<>>)
         IN IF r.err THEN [indices |-> <<>>, err |-> TRUE]
            ELSE [indices |-> uniqueSelectionIndices(r.selections, 1, {}), err |-> FALSE]

MaxSelectionParts == 2

MaxSuggestionCount == 3

SelectionPartPool == { "1", "2", " 3", "1-2", "2-3", "3-1", "0", "x", "", "+1", "4", "1-4", "-1", "1 - 2" }

SelectionInputPool ==
    { Join(parts, ",") \o "\n" : parts \in SeqsUpTo(SelectionPartPool, MaxSelectionParts) }
    \cup { "all\n", " ALL \n", "none\n", "None", "all,1\n" }

SelectionInit ==
    /\ OnlyFnCall
    /\ \E input \in SelectionInputPool, n \in 0..MaxSuggestionCount :
         fnCall = [fn |-> "parseNumericSelectionInput", done |-> FALSE, input |-> input,
                   suggestionCount |-> n, returned |-> [indices |-> <<>>, err |-> FALSE]]

CallParseNumericSelectionInput ==
    /\ fnCall.fn = "parseNumericSelectionInput" /\ ~fnCall.done
    /\ fnCall' = [fnCall EXCEPT !.done = TRUE,
                    !.returned = parseNumericSelectionInput(fnCall.input, fnCall.suggestionCount)]
    /\ UNCHANGED <<genArgs, genLocals, svcEnv, svcLocals>>

SelectionNext == CallParseNumericSelectionInput

SelectionSpec == SelectionInit /\ [][SelectionNext]_vars

\* the numbers 1..n a part of the input mentions, in order; <<0>> stands for a part that is
\* malformed or out of range
MentionsOfPart(rawPart, n) ==
    LET part == TrimLine(rawPart)
        fields == Split(part, "-")
    IN IF Len(fields) = 1 /\ Atoi(part).ok /\ Atoi(part).value \in 1..n
       THEN << Atoi(part).value >>
       ELSE IF /\ Len(fields) = 2
               /\ Atoi(fields[1]).ok /\ Atoi(fields[2]).ok
               /\ Atoi(fields[1]).value \in 1..n /\ Atoi(fields[2]).value \in 1..n
               /\ Atoi(fields[1]).value <= Atoi(fields[2]).value
            THEN [i \in 1..(Atoi(fields[2]).value - Atoi(fields[1]).value + 1) |->
                     Atoi(fields[1]).value + i - 1]
       ELSE << 0 >>

RECURSIVE MentionsFrom(_, _, _)
MentionsFrom(parts, i, n) ==
    IF i > Len(parts) THEN <<>>
    ELSE MentionsOfPart(parts[i], n) \o MentionsFrom(parts, i + 1, n)

\* what the input mentions: "all" is 1..n, "none" is nothing
Mentions(input, n) ==
    LET trimmed == TrimLine(ToLower(input)) IN
    IF trimmed = "none" THEN <<>>
    ELSE IF trimmed = "all" THEN [i \in 1..n |-> i]
    ELSE MentionsFrom(Split(trimmed, ","), 1, n)

FirstMention(mentions, number) ==
    CHOOSE k \in DOMAIN mentions :
        mentions[k] = number /\ \A j \in 1..(k - 1) : mentions[j] # number

\* C30: parseNumericSelectionInput(input, n) returns an error and no index when a part of
\* the input is malformed or out of range; otherwise it returns pairwise distinct indexes
\* in 0..n-1, namely those of the numbers the input mentions, each once, in the order in
\* which they are first mentioned ("all" gives 0..n-1 in order, "none" gives none).
C30_DistinctInRangeOrRejected ==
    (fnCall.fn = "parseNumericSelectionInput" /\ fnCall.done) =>
        LET n == fnCall.suggestionCount
            mentions == Mentions(fnCall.input, n)
            indices == fnCall.returned.indices
        IN IF \E k \in DOMAIN mentions : mentions[k] = 0
           THEN fnCall.returned.err /\ indices = <<>>
           ELSE /\ ~fnCall.returned.err
                /\ \A i, j \in DOMAIN indices : i # j => indices[i] # indices[j]
                /\ \A i \in DOMAIN indices : indices[i] \in 0..(n - 1)
                /\ { indices[i] + 1 : i \in DOMAIN indices } = { mentions[k] : k \in DOMAIN mentions }
                /\ \A i, j \in DOMAIN indices :
                     i < j => FirstMention(mentions, indices[i] + 1) < FirstMention(mentions, indices[j] + 1)

\* "2-3,1-2" with 3 suggestions: 2 is mentioned twice and returned once, 1 comes last
C30_Witness ==
    /\ fnCall.fn = "parseNumericSelectionInput" /\ fnCall.done
    /\ fnCall.input = "2-3,1-2\n"
    /\ fnCall.suggestionCount = 3
    /\ fnCall.returned = [indices |-> <<1, 2, 0>>, err |-> FALSE]

\* a valid part before a part out of range: nothing is returned
C30_RejectedWhole ==
    /\ fnCall.fn = "parseNumericSelectionInput" /\ fnCall.done
    /\ fnCall.input = "1,4\n"
    /\ fnCall.suggestionCount = 3
    /\ fnCall.returned = [indices |-> <<>>, err |-> TRUE]

(***************************************************************************)
(* The add and add-predefined commands, from the selection prompt to the   *)
(* calls of AddAliasToConfig                                               *)
(***************************************************************************)
\* the line selectAliasesViaFZF feeds to fzf for a suggestion
rawLineOf(s) == "alias " \o s.Name \o "='" \o s.Command \o "'"

\* suggestionMap[line]: a later suggestion with the same line replaces an earlier one
suggestionOfLine(suggestions, line) ==
    LET ks == { k \in DOMAIN suggestions : rawLineOf(suggestions[k]) = line }
    IN suggestions[CHOOSE k \in ks : \A j \in ks : j <= k]

\* the loop over the lines fzf printed: a line that is no key of suggestionMap is skipped
RECURSIVE chosenAliasesFrom(_, _, _)
chosenAliasesFrom(suggestions, selectedLines, i) ==
    IF i > Len(selectedLines) THEN <<>>
    ELSE LET trimmedLine == TrimLine(selectedLines[i])
         IN (IF \E k \in DOMAIN suggestions : rawLineOf(suggestions[k]) = trimmedLine
             THEN << suggestionOfLine(suggestions, trimmedLine) >>
             ELSE <<>>)
            \o chosenAliasesFrom(suggestions, selectedLines, i + 1)

\* fzf is [found, exitCode, stdout]: whether exec.LookPath finds it, and how the run ended.
\* The result is [aliases, err], err being "" for nil.
selectAliasesViaFZF(suggestions, fzf) ==
    IF ~fzf.found THEN [aliases |-> <<>>, err |-> "ErrFZFNotFound"]
    ELSE IF Len(suggestions) = 0 THEN [aliases |-> <<>>, err |-> ""]
    ELSE IF fzf.exitCode # 0
         THEN IF fzf.exitCode = 130 THEN [aliases |-> <<>>, err |-> "ErrFZFCancelled"]
              ELSE IF fzf.exitCode = 1 /\ TrimLine(fzf.stdout) = "" THEN [aliases |-> <<>>, err |-> ""]
              ELSE [aliases |-> <<>>, err |-> "fzf execution failed"]
    ELSE LET selectedLinesStr == TrimLine(fzf.stdout)
         IN IF selectedLinesStr = "" THEN [aliases |-> <<>>, err |-> ""]
            ELSE [aliases |-> chosenAliasesFrom(suggestions, Split(selectedLinesStr, "\n"), 1),
                  err |-> ""]

\* stdin is [readErr, line]: what reader.ReadString gives. The result is [aliases, err].
selectAliasesNumerically(suggestions, stdin) ==
    IF Len(suggestions) = 0 THEN [aliases |-> <<>>, err |-> FALSE]
    ELSE IF stdin.readErr THEN [aliases |-> <<>>, err |-> TRUE]
    ELSE LET parsed == parseNumericSelectionInput(stdin.line, Len(suggestions))
         IN IF parsed.err THEN [aliases |-> <<>>, err |-> TRUE]
            ELSE [aliases |-> [k \in DOMAIN parsed.indices |-> suggestions[parsed.indices[k] + 1]],
                  err |-> FALSE]

confirmed_AnyAnswer(input) == TRUE

\* the answer to "Do you want to add these selected aliases? (yes/no)"
confirmed(input) ==
    LET answer == TrimLine(ToLower(input))
    IN ~(answer # "yes" /\ answer # "y")

NoInput == [readErr |-> FALSE, line |-> ""]

NoFzf == [found |-> FALSE, exitCode |-> 0, stdout |-> ""]

\* the suggestions of the README, and a single one
OfferedPool ==
    { << [Name |-> "gs", Command |-> "git status"],
         [Name |-> "gp", Command |-> "git push"],
         [Name |-> "ll", Command |-> "ls -alh"] >>,
      << [Name |-> "k", Command |-> "kubectl"] >> }

MaxFzfLines == 2

\* what fzf can print: lines it was fed, and a line it was not
FzfLinePool(offered) == { rawLineOf(offered[k]) : k \in DOMAIN offered } \cup { "alias zz='nope'" }

\* fzf is missing, was cancelled, ended with 1 and printed nothing, failed, or printed lines
FzfPool(offered) ==
    { NoFzf,
      [found |-> TRUE, exitCode |-> 130, stdout |-> ""],
      [found |-> TRUE, exitCode |-> 1, stdout |-> ""],
      [found |-> TRUE, exitCode |-> 1, stdout |-> "alias zz='nope'\n"],
      [found |-> TRUE, exitCode |-> 2, stdout |-> ""] }
    \cup { [found |-> TRUE, exitCode |-> 0, stdout |-> Join(lines, "\n") \o "\n"] :
             lines \in SeqsUpTo(FzfLinePool(offered), MaxFzfLines) }

SelectionStdinPool ==
    { [readErr |-> TRUE, line |-> ""] }
    \cup { [readErr |-> FALSE, line |-> l] :
             l \in { "1\n", "1,3\n", "2-3,1\n", "all\n", "none\n", "\n", "4\n", "x\n", "1,9\n" } }

ConfirmationStdinPool ==
    { [readErr |-> TRUE, line |-> ""] }
    \cup { [readErr |-> FALSE, line |-> l] :
             l \in { "yes\n", "y\n", " YES \n", "Y\r\n", "no\n", "\n", "yess\n", "n\n", "ok\n" } }

\* the command has fetched the aliases it offers and is about to ask for a selection
AddCmdInit ==
    /\ commands = <<>>
    /\ existingAliases = EmptyMap
    /\ minFrequency = 0
    /\ GenLocalsInit([c \in Calls |-> "idle"])
    /\ historyLines = <<>>
    /\ histSizeEnv = 0
    /\ historyProvider = WorkingHistoryProvider
    /\ shellConfigFails = FALSE
    /\ shellAliases = EmptyMap
    /\ predefinedProvider = [configured |-> FALSE, loadErr |-> FALSE, aliases |-> <<>>]
    /\ pathExecutables = {}
    /\ svcArgs = [minFrequency |-> 0, scanLimit |-> 0, outputLimit |-> 0]
    /\ svcpc = "unused"
    /\ svcErr = ""
    /\ portCalls = <<>>
    /\ validPredefined = <<>>
    /\ frequencies = <<>>
    /\ result = <<>>
    /\ generatedAliasesFile \in { AbsentFile, [exists |-> TRUE, content |-> "alias gp='git pull'\n"] }
    /\ aliasDir = MissingDir
    /\ addCalls = <<>>
    /\ \E fn \in { "add", "add-predefined" }, offered \in OfferedPool :
         fnCall = [fn |-> fn, done |-> FALSE, pc |-> "selecting", offered |-> offered,
                   fzf |-> NoFzf, selectionStdin |-> NoInput, askedNumerically |-> FALSE,
                   finalSelectedAliases |-> <<>>, selectionErr |-> FALSE,
                   confirmationStdin |-> NoInput, askedConfirmation |-> FALSE,
                   err |-> FALSE]

\* runAddCmd and the add-predefined command, from selectAliasesViaFZF to the checks on
\* selectionErr and on the length of finalSelectedAliases
SelectAliases ==
    /\ fnCall.fn \in { "add", "add-predefined" }
    /\ fnCall.pc = "selecting"
    /\ \E fzf \in FzfPool(fnCall.offered), stdin \in SelectionStdinPool :
         LET fzfSelected == selectAliasesViaFZF(fnCall.offered, fzf)
             fallsBack == fzfSelected.err \notin { "", "ErrFZFCancelled" }
             numeric == selectAliasesNumerically(fnCall.offered, stdin)
             finalSelectedAliases == IF fzfSelected.err = "" THEN fzfSelected.aliases
                                     ELSE IF fallsBack THEN numeric.aliases
                                     ELSE <<>>
             selectionErr == fallsBack /\ numeric.err
         IN fnCall' = [fnCall EXCEPT
                         !.fzf = fzf,
                         !.askedNumerically = fallsBack,
                         !.selectionStdin = IF fallsBack THEN stdin ELSE NoInput,
                         !.finalSelectedAliases = finalSelectedAliases,
                         !.selectionErr = selectionErr,
                         !.done = \/ fzfSelected.err = "ErrFZFCancelled" /\ fnCall.fn = "add-predefined"
                                  \/ selectionErr
                                  \/ Len(finalSelectedAliases) = 0,
                         !.pc = IF fzfSelected.err = "ErrFZFCancelled" /\ fnCall.fn = "add-predefined"
                                THEN "returned"
                                ELSE IF selectionErr THEN "returned"
                                ELSE IF Len(finalSelectedAliases) = 0 THEN "returned"
                                ELSE IF fnCall.fn = "add-predefined" THEN "confirming"
                                ELSE "adding"]
    /\ UNCHANGED <<genArgs, genLocals, svcEnv, svcLocals>>

\* add-predefined: the confirmation prompt
AnswerConfirmation ==
    /\ fnCall.fn = "add-predefined"
    /\ fnCall.pc = "confirming"
    /\ \E stdin \in ConfirmationStdinPool :
         fnCall' = [fnCall EXCEPT
                      !.askedConfirmation = TRUE,
                      !.confirmationStdin = stdin,
                      !.err = stdin.readErr,
                      !.done = stdin.readErr \/ ~confirmed(stdin.line),
                      !.pc = IF stdin.readErr THEN "returned"
                             ELSE IF ~confirmed(stdin.line) THEN "returned"
                             ELSE "adding"]
    /\ UNCHANGED <<genArgs, genLocals, svcEnv, svcLocals>>

\* one turn of the loop of addAliasesToConfigAndPrintOutcome and of addPredefinedToConfig:
\* AddAliasToConfig hands the alias to AddAlias
AddSelectedAlias ==
    /\ fnCall.fn \in { "add", "add-predefined" }
    /\ fnCall.pc = "adding"
    /\ Len(addCalls) < Len(fnCall.finalSelectedAliases)
    /\ AddAlias(fnCall.finalSelectedAliases[Len(addCalls) + 1])

\* the loop is over and the command returns
ReturnAfterAdding ==
    /\ fnCall.fn \in { "add", "add-predefined" }
    /\ fnCall.pc = "adding"
    /\ Len(addCalls) = Len(fnCall.finalSelectedAliases)
    /\ fnCall' = [fnCall EXCEPT !.done = TRUE, !.pc = "returned"]
    /\ UNCHANGED <<genArgs, genLocals, svcEnv, svcLocals>>

AddCmdNext ==
    \/ SelectAliases
    \/ AnswerConfirmation
    \/ AddSelectedAlias
    \/ ReturnAfterAdding

AddCmdSpec == AddCmdInit /\ [][AddCmdNext]_vars

\* the offered aliases whose line the user picked in fzf
PickedInFzf ==
    LET picked == Split(fnCall.fzf.stdout, "\n")
    IN { fnCall.offered[k] : k \in { i \in DOMAIN fnCall.offered :
                                       \E j \in DOMAIN picked : picked[j] = rawLineOf(fnCall.offered[i]) } }

\* the numeric prompt was answered with a line in which every part is a number or range
\* of the list
NumericAnswerValid ==
    /\ fnCall.askedNumerically
    /\ ~fnCall.selectionStdin.readErr
    /\ \A k \in DOMAIN Mentions(fnCall.selectionStdin.line, Len(fnCall.offered)) :
         Mentions(fnCall.selectionStdin.line, Len(fnCall.offered))[k] # 0

\* the offered aliases whose number the user gave at the numeric prompt
PickedByNumber ==
    IF NumericAnswerValid
    THEN LET mentions == Mentions(fnCall.selectionStdin.line, Len(fnCall.offered))
         IN { fnCall.offered[mentions[k]] : k \in DOMAIN mentions }
    ELSE {}

FzfCancelled == fnCall.fzf.found /\ fnCall.fzf.exitCode = 130

SelectionFailed == fnCall.askedNumerically /\ ~NumericAnswerValid

\* the confirmation prompt was answered with yes or y, in any case, blanks around it
AnsweredYes ==
    /\ fnCall.askedConfirmation
    /\ ~fnCall.confirmationStdin.readErr
    /\ fnCall.confirmationStdin.line \in { "yes\n", "y\n", " YES \n", "Y\r\n" }

\* C29: in add and add-predefined every call of AddAliasToConfig is for an alias the user
\* picked, in fzf or at the numeric prompt; after fzf was cancelled or the selection failed
\* no call is made; and in add-predefined no call is made unless the confirmation prompt
\* was answered with yes or y.
C29_WritesOnlyForSelected ==
    /\ \A k \in DOMAIN addCalls : addCalls[k].newAlias \in PickedInFzf \cup PickedByNumber
    /\ (FzfCancelled \/ SelectionFailed) => addCalls = <<>>
    /\ (fnCall.fn = "add-predefined" /\ addCalls # <<>>) => AnsweredYes

\* add-predefined: two of three aliases picked by number, the prompt answered " YES ",
\* and both handed to AddAlias, which skips the name generated_aliases already defines
C29_Witness ==
    /\ fnCall.fn = "add-predefined" /\ fnCall.pc = "returned"
    /\ fnCall.selectionStdin.line = "2-3,1\n"
    /\ fnCall.confirmationStdin.line = " YES \n"
    /\ Len(addCalls) = 3
    /\ addCalls[1].newAlias.Name = "gp" /\ ~addCalls[1].added
    /\ addCalls[2].newAlias.Name = "ll" /\ addCalls[2].added

\* add-predefined: aliases were selected and the answer was no: the command returned
\* without a call
C29_Declined ==
    /\ fnCall.fn = "add-predefined" /\ fnCall.pc = "returned"
    /\ fnCall.finalSelectedAliases # <<>>
    /\ fnCall.confirmationStdin.line = "no\n"
    /\ addCalls = <<>>

\* add: fzf was cancelled and the command returned without a call
C29_CancelledInAdd ==
    /\ fnCall.fn = "add" /\ fnCall.pc = "returned"
    /\ FzfCancelled
    /\ addCalls = <<>>

\* add: lines picked in fzf were written
C29_PickedInFzfWritten ==
    /\ fnCall.fn = "add" /\ fnCall.pc = "returned"
    /\ fnCall.fzf.exitCode = 0
    /\ Len(addCalls) = 2

====
